---- MODULE Spec2Model ----
(***************************************************************************)
(* A model of the MoQT validator (src/main.go): the session state held by  *)
(* MoQTValidator, the byte-level decoders of control messages, data        *)
(* streams and datagrams, and the entry points ValidateMessage and         *)
(* ValidateDatagram as actions over that state.                            *)
(*                                                                         *)
(* A byte buffer is a sequence over 0..255.  A reader is a buffer and the  *)
(* number of bytes already consumed (pos).  Every decoder returns a record *)
(* whose field err is "none" or the kind of the Go error:                  *)
(*    "ValidationError"    wraps ErrValidation                             *)
(*    "ProtocolViolation"  wraps ErrProtocolViolation                      *)
(*    "EOF"                the raw io.EOF                                  *)
(*    "UnexpectedEOF"      the raw io.ErrUnexpectedEOF                     *)
(* and whose field msg is the text of the error up to its arguments.       *)
(***************************************************************************)
EXTENDS Integers, Sequences, FiniteSets, TLC

(***************************************************************************)
(* Program constants.                                                      *)
(***************************************************************************)
ClientSetup == 32
ServerSetup == 33
Goaway == 16
MaxRequestID == 21
RequestsBlocked == 26
Subscribe == 3
SubscribeOK == 4
SubscribeError == 5
Unsubscribe == 10
SubscribeUpdate == 2
SubscribeDone == 11
Fetch == 22
FetchOK == 24
FetchError == 25
FetchCancel == 23
TrackStatusRequest == 13
TrackStatus == 14
Announce == 6
AnnounceOK == 7
AnnounceError == 8
Unannounce == 9
AnnounceCancel == 12
SubscribeAnnounces == 17
SubscribeAnnouncesOK == 18
SubscribeAnnouncesError == 19
UnsubscribeAnnounces == 20

NextGroupStart == 1
LatestObject == 2
AbsoluteStart == 3
AbsoluteRange == 4

GroupOrderDefault == 0
GroupOrderAscending == 1
GroupOrderDescending == 2

ObjectStatusNormal == 0
ObjectStatusDoesNotExist == 1
ObjectStatusEndOfGroup == 3
ObjectStatusEndOfTrack == 4

FetchHeader == 5

ObjectDatagramNoExt == 0
ObjectDatagramWithExt == 1
ObjectStatusNoExt == 2
ObjectStatusWithExt == 3

SetupParamPath == 1
SetupParamMaxRequestID == 2
SetupParamMaxAuthTokenCacheSize == 4

VersionParamAuthorizationToken == 1
VersionParamDeliveryTimeout == 2
VersionParamMaxCacheDuration == 4

ExtHeaderPriorGroupIDGap == 64

AliasTypeDelete == 0
AliasTypeRegister == 1
AliasTypeUseAlias == 2
AliasTypeUseValue == 3

MaxNamespaceFields == 32
MaxFullTrackNameLength == 4096
MaxParameterLength == 65535
MaxUriLength == 8192
TokenOverhead == 8
PayloadHexLimit == 100
InitialVersion == 1

(***************************************************************************)
(* Byte buffers and io.ReadFull.                                           *)
(***************************************************************************)
Byte == 0..255

Pow2(n) == 2 ^ n

\* The big-endian value of a byte sequence (binary.BigEndian.UintNN).
RECURSIVE BigEndian(_)
BigEndian(bs) ==
    IF bs = << >> THEN 0
    ELSE BigEndian(SubSeq(bs, 1, Len(bs) - 1)) * 256 + bs[Len(bs)]

\* The n-byte big-endian form of x (binary.BigEndian.PutUintNN).
RECURSIVE PutBigEndian(_, _)
PutBigEndian(x, n) ==
    IF n = 0 THEN << >>
    ELSE Append(PutBigEndian(x \div 256, n - 1), x % 256)

\* io.ReadFull(r, buf) with len(buf) = n on a reader at pos of data: all n bytes,
\* or io.EOF when no byte was read, or io.ErrUnexpectedEOF when some were.
ReadFull(data, pos, n) ==
    IF n = 0 THEN [err |-> "none", bytes |-> << >>, pos |-> pos]
    ELSE IF Len(data) - pos >= n
    THEN [err |-> "none", bytes |-> SubSeq(data, pos + 1, pos + n), pos |-> pos + n]
    ELSE IF Len(data) - pos = 0
    THEN [err |-> "EOF", bytes |-> << >>, pos |-> pos]
    ELSE [err |-> "UnexpectedEOF", bytes |-> << >>, pos |-> Len(data)]

\* io.ReadAll(r): the rest of the buffer, never an error on a bytes.Reader.
ReadAll(data, pos) == SubSeq(data, pos + 1, Len(data))

(***************************************************************************)
(* VarInt                                                                  *)
(***************************************************************************)
\* Encode with the one-byte form kept up to 64 inclusive.
VarIntEncode_oneByteAt64(value) ==
    IF value <= 64 THEN [err |-> "none", bytes |-> <<value>>]
    ELSE IF value < 16384
    THEN [err |-> "none", bytes |-> PutBigEndian(value + 16384, 2)]
    ELSE IF value < 1073741824
    THEN [err |-> "none",
          bytes |-> <<128 + (value \div 16777216)>> \o PutBigEndian(value % 16777216, 3)]
    ELSE [err |-> "none",
          bytes |-> <<192, 0, 0, 0>> \o PutBigEndian(value, 4)]

VarIntEncode(value) ==
    IF value < 64 THEN [err |-> "none", bytes |-> <<value>>]
    ELSE IF value < 16384
    THEN [err |-> "none", bytes |-> PutBigEndian(value + 16384, 2)]
    ELSE IF value < 1073741824
    THEN [err |-> "none",
          bytes |-> <<128 + (value \div 16777216)>> \o PutBigEndian(value % 16777216, 3)]
    ELSE [err |-> "none",
          bytes |-> <<192, 0, 0, 0>> \o PutBigEndian(value, 4)]

\* The number of bytes that follow a first byte of the given prefix.
VarIntRest(prefix) == Pow2(prefix) - 1

\* A decoder is written as the steps of its code, one definition per read: the
\* definition named f_x is the code of f that runs once x has been read, and takes
\* what was read as the record x.  The steps of a decoder stand before it, the last
\* one first.
\* The bits 31 to 61 of the value of a first byte and the bytes after it: 0 for
\* the forms of 1, 2 and 4 bytes.
VarIntHigh(firstByte, bytes) ==
    IF Len(bytes) < 7 THEN 0
    ELSE (firstByte % 64) * 33554432 + bytes[1] * 131072 + bytes[2] * 512
         + bytes[3] * 2 + bytes[4] \div 128

\* The integers of the model checker end at 2^31 - 1.  A decoded uint64 is the
\* record field value when it is below 2^31, with high = 0; from 2^31 on, high
\* is the value without its low 31 bits and value stands at 2^31 - 1, so that
\* every comparison with a smaller number comes out as it does in the code.
VarIntDecode_buf(firstByte, buf) ==
    IF buf.err # "none"
    THEN [err |-> buf.err, value |-> 0, high |-> 0, n |-> 1, pos |-> buf.pos]
    ELSE [err |-> "none",
          value |-> IF VarIntHigh(firstByte, buf.bytes) > 0 THEN 2147483647
                    ELSE BigEndian(<<firstByte % 64>> \o buf.bytes),
          high |-> VarIntHigh(firstByte, buf.bytes),
          n |-> 1 + Len(buf.bytes),
          pos |-> buf.pos]

VarIntDecode_firstByte(data, firstByte) ==
    IF firstByte.err # "none"
    THEN [err |-> firstByte.err, value |-> 0, high |-> 0, n |-> 0,
          pos |-> firstByte.pos]
    ELSE IF firstByte.bytes[1] \div 64 = 0
    THEN [err |-> "none", value |-> firstByte.bytes[1], high |-> 0, n |-> 1,
          pos |-> firstByte.pos]
    ELSE VarIntDecode_buf(firstByte.bytes[1],
                          ReadFull(data, firstByte.pos,
                                   VarIntRest(firstByte.bytes[1] \div 64)))

VarIntDecode(data, pos) == VarIntDecode_firstByte(data, ReadFull(data, pos, 1))

\* A field the grammar leaves out: nothing read, the reader where it was.
NotRead(pos) == [err |-> "none", value |-> 0, high |-> 0, n |-> 0, pos |-> pos]

\* make([]T, n) and make([]T, 0, n) with n read from the wire: the runtime
\* panics ("makeslice: len out of range", "makeslice: cap out of range") when
\* the size is above what it can allocate, which a count of 2^48 or more is for
\* every element type.  A panic is the error kind "panic": no decoder has a
\* recover, so the call that reaches it returns neither a record nor an error.
makeslicePanics(n) == n.high >= 131072

\* buf := make([]byte, n) followed by io.ReadFull(r, buf).
MakeAndReadFull(data, n) ==
    IF makeslicePanics(n) THEN [err |-> "panic", bytes |-> << >>, pos |-> n.pos]
    ELSE ReadFull(data, n.pos, n.value)

(***************************************************************************)
(* Results and errors.                                                     *)
(***************************************************************************)
\* The nil map a failed decode returns.
NilResult == [nil |-> TRUE]

\* A failed step: the error, and the validator as the failure left it.
Failed(kind, msg, v) == [err |-> kind, msg |-> msg, v |-> v, result |-> NilResult]

\* A raw reader error (io.EOF, io.ErrUnexpectedEOF) returned as it is.
Raw(kind, v) == Failed(kind, "", v)

\* A successful step.
Done(v, result) == [err |-> "none", msg |-> "", v |-> v, result |-> result]

HexDigits == <<"0", "1", "2", "3", "4", "5", "6", "7",
               "8", "9", "a", "b", "c", "d", "e", "f">>

\* hex.EncodeToString: two lowercase digits per byte.
HexEncodeToString(bs) ==
    [i \in 1..(2 * Len(bs)) |->
        IF i % 2 = 1 THEN HexDigits[(bs[(i + 1) \div 2] \div 16) + 1]
        ELSE HexDigits[(bs[i \div 2] % 16) + 1]]

HexEncodeAll(fields) == [i \in 1..Len(fields) |-> HexEncodeToString(fields[i])]

\* The digits of fmt.Sprintf("%x", x), most significant first.
RECURSIVE HexOf(_)
HexOf(x) ==
    IF x < 16 THEN <<HexDigits[x + 1]>>
    ELSE Append(HexOf(x \div 16), HexDigits[(x % 16) + 1])

\* fmt.Sprintf("0x%08x", version): zero-padded to at least eight digits.
RECURSIVE ZeroPad(_, _)
ZeroPad(ds, width) == IF Len(ds) >= width THEN ds ELSE ZeroPad(<<"0">> \o ds, width)

FormatVersion(version) == <<"0", "x">> \o ZeroPad(HexOf(version), 8)

(***************************************************************************)
(* Location, TrackNamespace, FullTrackName.                                *)
(***************************************************************************)
\* Less comparing the groups only.
Less_groupOnly(l, other) == l.GroupID < other.GroupID

Less(l, other) ==
    IF l.GroupID < other.GroupID THEN TRUE
    ELSE IF l.GroupID = other.GroupID THEN l.ObjectID < other.ObjectID
    ELSE FALSE

NewTrackNamespace(fields) ==
    IF Len(fields) = 0 \/ Len(fields) > MaxNamespaceFields
    THEN [err |-> "ProtocolViolation", Fields |-> << >>]
    ELSE [err |-> "none", Fields |-> fields]

\* The sum of the field lengths; the two halves are summed apart, which keeps
\* the depth of the evaluation logarithmic in the number of fields.
RECURSIVE SumLen(_)
SumLen(fields) ==
    IF fields = << >> THEN 0
    ELSE IF Len(fields) = 1 THEN Len(fields[1])
    ELSE SumLen(SubSeq(fields, 1, Len(fields) \div 2))
         + SumLen(SubSeq(fields, Len(fields) \div 2 + 1, Len(fields)))

NewFullTrackName(namespace, name) ==
    IF SumLen(namespace) + Len(name) > MaxFullTrackNameLength
    THEN [err |-> "ProtocolViolation", Namespace |-> << >>, Name |-> << >>]
    ELSE [err |-> "none", Namespace |-> namespace, Name |-> name]

(***************************************************************************)
(* readTuple                                                               *)
(***************************************************************************)
RECURSIVE readTuple_loop(_, _, _)

\* One iteration of the loop, lines 1184-1192: the state after the field.
readTuple_fieldData(data, fields, fieldData) ==
    IF fieldData.err = "panic"
    THEN [err |-> "panic", msg |-> "makeslice: len out of range",
          fields |-> << >>, pos |-> fieldData.pos]
    ELSE IF fieldData.err # "none"
    THEN [err |-> "ValidationError", msg |-> "insufficient data for tuple field",
          fields |-> << >>, pos |-> fieldData.pos]
    ELSE [err |-> "none", msg |-> "", fields |-> Append(fields, fieldData.bytes),
          pos |-> fieldData.pos]

readTuple_fieldLength(data, fields, fieldLength) ==
    IF fieldLength.err # "none"
    THEN [err |-> fieldLength.err, msg |-> "", fields |-> << >>, pos |-> fieldLength.pos]
    ELSE readTuple_fieldData(data, fields, MakeAndReadFull(data, fieldLength))

\* Lines 1183-1193: `left` iterations from the state `read`, in order, ending
\* at the first error.  The iterations are composed by halves (the first
\* left \div 2 of them, then the others), which keeps the depth of the evaluation
\* logarithmic in the number of fields.
readTuple_loop(data, read, left) ==
    IF read.err # "none" \/ left = 0 THEN read
    ELSE IF left = 1
    THEN readTuple_fieldLength(data, read.fields, VarIntDecode(data, read.pos))
    ELSE readTuple_loop(data, readTuple_loop(data, read, left \div 2),
                        left - left \div 2)

readTuple_numFields(data, numFields) ==
    IF numFields.err # "none"
    THEN [err |-> numFields.err, msg |-> "", fields |-> << >>, pos |-> numFields.pos]
    ELSE IF makeslicePanics(numFields)
    THEN [err |-> "panic", msg |-> "makeslice: cap out of range",
          fields |-> << >>, pos |-> numFields.pos]
    ELSE readTuple_loop(data, [err |-> "none", msg |-> "", fields |-> << >>,
                               pos |-> numFields.pos], numFields.value)

readTuple(data, pos) == readTuple_numFields(data, VarIntDecode(data, pos))

(***************************************************************************)
(* validateRequestID                                                       *)
(***************************************************************************)
\* validateRequestID without the comparison against the maximum.
validateRequestID_parityOnly(v, requestID, isClient) ==
    IF isClient
    THEN IF requestID % 2 # 0
         THEN [err |-> "ProtocolViolation", msg |-> "client request ID must be even"]
         ELSE [err |-> "none", msg |-> ""]
    ELSE IF requestID % 2 # 1
         THEN [err |-> "ProtocolViolation", msg |-> "server request ID must be odd"]
         ELSE [err |-> "none", msg |-> ""]

validateRequestID(v, requestID, isClient) ==
    IF isClient
    THEN IF requestID % 2 # 0
         THEN [err |-> "ProtocolViolation", msg |-> "client request ID must be even"]
         ELSE IF requestID > v.maxRequestIDClient
         THEN [err |-> "ProtocolViolation", msg |-> "request ID exceeds maximum"]
         ELSE [err |-> "none", msg |-> ""]
    ELSE IF requestID % 2 # 1
         THEN [err |-> "ProtocolViolation", msg |-> "server request ID must be odd"]
         ELSE IF requestID > v.maxRequestIDServer
         THEN [err |-> "ProtocolViolation", msg |-> "request ID exceeds maximum"]
         ELSE [err |-> "none", msg |-> ""]

(***************************************************************************)
(* validateAuthToken: the token cache state machine.                       *)
(***************************************************************************)
aliasTypeNames == <<"DELETE", "REGISTER", "USE_ALIAS", "USE_VALUE">>

\* Map delete: the function without key k.
Without(f, k) == [x \in (DOMAIN f) \ {k} |-> f[x]]

\* Map store: f with f[k] = val, k new or not.
With(f, k, val) == [x \in (DOMAIN f) \cup {k} |-> IF x = k THEN val ELSE f[x]]

\* registerToken without the budget check.
registerToken_noBudget(v, alias, tokenValue) ==
    IF alias \in DOMAIN v.authTokens
    THEN [err |-> "ProtocolViolation", msg |-> "duplicate auth token alias", v |-> v]
    ELSE [err |-> "none", msg |-> "",
          v |-> [v EXCEPT !.authTokens = With(@, alias, tokenValue),
                          !.currentAuthTokenSize = @ + (TokenOverhead + Len(tokenValue))]]

\* registerToken with the alias looked up before the budget.
registerToken_aliasFirst(v, alias, tokenValue) ==
    IF alias \in DOMAIN v.authTokens
    THEN [err |-> "ProtocolViolation", msg |-> "duplicate auth token alias", v |-> v]
    ELSE IF v.currentAuthTokenSize + (TokenOverhead + Len(tokenValue))
            > v.maxAuthTokenCacheSize
    THEN [err |-> "ProtocolViolation", msg |-> "auth token cache overflow", v |-> v]
    ELSE [err |-> "none", msg |-> "",
          v |-> [v EXCEPT !.authTokens = With(@, alias, tokenValue),
                          !.currentAuthTokenSize = @ + (TokenOverhead + Len(tokenValue))]]

\* Lines 1139-1152: REGISTER checks the budget, then the alias, then inserts.
registerToken(v, alias, tokenValue) ==
    IF v.currentAuthTokenSize + (TokenOverhead + Len(tokenValue)) > v.maxAuthTokenCacheSize
    THEN [err |-> "ProtocolViolation", msg |-> "auth token cache overflow", v |-> v]
    ELSE IF alias \in DOMAIN v.authTokens
    THEN [err |-> "ProtocolViolation", msg |-> "duplicate auth token alias", v |-> v]
    ELSE [err |-> "none", msg |-> "",
          v |-> [v EXCEPT !.authTokens = With(@, alias, tokenValue),
                          !.currentAuthTokenSize = @ + (TokenOverhead + Len(tokenValue))]]

\* deleteToken that removes the alias and keeps the size.
deleteToken_keepsSize(v, alias) ==
    IF alias \in DOMAIN v.authTokens
    THEN [v EXCEPT !.authTokens = Without(@, alias)]
    ELSE v

\* Lines 1156-1163: DELETE removes a present alias and gives its size back.
deleteToken(v, alias) ==
    IF alias \in DOMAIN v.authTokens
    THEN [v EXCEPT !.authTokens = Without(@, alias),
                   !.currentAuthTokenSize = @ - (TokenOverhead + Len(v.authTokens[alias]))]
    ELSE v

\* tokenOperation in which USE_ALIAS takes a known alias out of the cache.
tokenOperation_useConsumes(v, aliasType, alias, result) ==
    IF aliasType = AliasTypeDelete
       \/ (aliasType = AliasTypeUseAlias /\ alias \in DOMAIN v.authTokens)
    THEN Done(deleteToken(v, alias), result)
    ELSE IF aliasType = AliasTypeUseAlias
    THEN Failed("ProtocolViolation", "unknown auth token alias", v)
    ELSE Done(v, result)

\* Lines 1155-1172: the DELETE and USE_ALIAS operations after the token grammar.
tokenOperation(v, aliasType, alias, result) ==
    IF aliasType = AliasTypeDelete
    THEN Done(deleteToken(v, alias), result)
    ELSE IF aliasType = AliasTypeUseAlias /\ alias \notin DOMAIN v.authTokens
    THEN Failed("ProtocolViolation", "unknown auth token alias", v)
    ELSE Done(v, result)

\* What the locals aliasType and tokenAlias hold once both are known.
validateAuthToken_register(token, result, reg) ==
    IF reg.err # "none" THEN Failed(reg.err, reg.msg, reg.v)
    ELSE tokenOperation(reg.v, token.aliasType, token.alias, result)

\* validateAuthToken_tokenValue that reports a REGISTER and leaves the cache alone.
validateAuthToken_tokenValue_dry(v, token, result, tokenValue) ==
    validateAuthToken_register(token,
        result @@ [token_value |-> HexEncodeToString(tokenValue),
                   token_value_length |-> Len(tokenValue)],
        [err |-> "none", msg |-> "", v |-> v])

validateAuthToken_tokenValue(v, token, result, tokenValue) ==
    validateAuthToken_register(token,
        result @@ [token_value |-> HexEncodeToString(tokenValue),
                   token_value_length |-> Len(tokenValue)],
        IF token.aliasType = AliasTypeRegister
        THEN registerToken(v, token.alias, tokenValue)
        ELSE [err |-> "none", msg |-> "", v |-> v])

validateAuthToken_tokenType(v, tokenData, token, result, tokenType) ==
    IF tokenType.err # "none" THEN Raw(tokenType.err, v)
    ELSE validateAuthToken_tokenValue(v, token,
                                      result @@ [token_type |-> tokenType.value],
                                      ReadAll(tokenData, tokenType.pos))

validateAuthToken_tokenAlias(v, tokenData, aliasType, tokenAlias) ==
    IF tokenAlias.err # "none" THEN Raw(tokenAlias.err, v)
    ELSE IF aliasType = AliasTypeRegister
    THEN validateAuthToken_tokenType(v, tokenData,
             [aliasType |-> aliasType, alias |-> tokenAlias.value],
             [alias_type |-> aliasTypeNames[aliasType + 1],
              token_alias |-> tokenAlias.value],
             VarIntDecode(tokenData, tokenAlias.pos))
    ELSE IF aliasType = AliasTypeUseValue
    THEN validateAuthToken_tokenType(v, tokenData,
             [aliasType |-> aliasType, alias |-> tokenAlias.value],
             [alias_type |-> aliasTypeNames[aliasType + 1]],
             VarIntDecode(tokenData, tokenAlias.pos))
    ELSE tokenOperation(v, aliasType, tokenAlias.value,
                        [alias_type |-> aliasTypeNames[aliasType + 1],
                         token_alias |-> tokenAlias.value])

validateAuthToken_aliasType(v, tokenData, aliasType) ==
    IF aliasType.err # "none" THEN Raw(aliasType.err, v)
    ELSE IF aliasType.value > 3
    THEN Failed("ProtocolViolation", "invalid alias type", v)
    ELSE validateAuthToken_tokenAlias(v, tokenData, aliasType.value,
                                      IF aliasType.value <= 2
                                      THEN VarIntDecode(tokenData, aliasType.pos)
                                      ELSE NotRead(aliasType.pos))

validateAuthToken(v, tokenData) ==
    validateAuthToken_aliasType(v, tokenData, VarIntDecode(tokenData, 0))

(***************************************************************************)
(* Parameter lists.                                                        *)
(***************************************************************************)
\* A parameter that could not be read.
NoParameter(err, msg, pos) ==
    [err |-> err, msg |-> msg, info |-> NilResult, bytes |-> << >>, pos |-> pos]

readParameter_bytes(paramType, length, value) ==
    IF value.err # "none"
    THEN NoParameter("ValidationError", "insufficient data for parameter value", value.pos)
    ELSE [err |-> "none", msg |-> "",
          info |-> [type |-> paramType,
                    value |-> HexEncodeToString(value.bytes),
                    length |-> length],
          bytes |-> value.bytes, pos |-> value.pos]

readParameter_length(data, paramType, length) ==
    IF length.err # "none" THEN NoParameter(length.err, "", length.pos)
    ELSE IF length.value > MaxParameterLength
    THEN NoParameter("ProtocolViolation", "parameter length too large", length.pos)
    ELSE readParameter_bytes(paramType, length.value,
                             ReadFull(data, length.pos, length.value))

readParameter_value(paramType, val) ==
    IF val.err # "none" THEN NoParameter(val.err, "", val.pos)
    ELSE [err |-> "none", msg |-> "",
          info |-> [type |-> paramType, value |-> val.value],
          bytes |-> << >>, pos |-> val.pos]

readParameter_paramType(data, paramType) ==
    IF paramType.err # "none" THEN NoParameter(paramType.err, "", paramType.pos)
    ELSE IF paramType.value % 2 = 0
    THEN readParameter_value(paramType.value, VarIntDecode(data, paramType.pos))
    ELSE readParameter_length(data, paramType.value, VarIntDecode(data, paramType.pos))

\* One parameter's type and value, read by the parity of the type (lines 985-1012
\* and 1035-1063): even, a varint; odd, a length and that many bytes.
readParameter(data, pos) == readParameter_paramType(data, VarIntDecode(data, pos))

setupParamName(info) ==
    IF info.type = SetupParamPath THEN info @@ [name |-> "PATH"]
    ELSE IF info.type = SetupParamMaxRequestID THEN info @@ [name |-> "MAX_REQUEST_ID"]
    ELSE IF info.type = SetupParamMaxAuthTokenCacheSize
    THEN info @@ [name |-> "MAX_AUTH_TOKEN_CACHE_SIZE"]
    ELSE info

RECURSIVE validateSetupParameters_loop(_, _, _, _, _)

validateSetupParameters_param(v, data, left, params, p) ==
    IF p.err # "none"
    THEN [err |-> p.err, msg |-> p.msg, v |-> v, params |-> << >>, pos |-> p.pos]
    ELSE validateSetupParameters_loop(v, data, p.pos, left - 1,
                                      Append(params, setupParamName(p.info)))

validateSetupParameters_loop(v, data, pos, left, params) ==
    IF left = 0
    THEN [err |-> "none", msg |-> "", v |-> v, params |-> params, pos |-> pos]
    ELSE validateSetupParameters_param(v, data, left, params, readParameter(data, pos))

\* The validator is read by nothing here and written by nothing: the parameters are
\* decoded and named, and returned.
validateSetupParameters(v, data, pos, numParams) ==
    validateSetupParameters_loop(v, data, pos, numParams, << >>)

versionParam_authDetails(info, auth) ==
    IF auth.err # "none"
    THEN [err |-> auth.err, msg |-> auth.msg, v |-> auth.v, info |-> NilResult]
    ELSE [err |-> "none", msg |-> "", v |-> auth.v,
          info |-> auth.result @@ info @@ [name |-> "AUTHORIZATION_TOKEN"]]

\* Lines 1066-1082: the known version parameters; an AUTHORIZATION_TOKEN with a
\* value of at least one byte goes through validateAuthToken.
versionParam(v, info, value) ==
    IF info.type = VersionParamAuthorizationToken /\ Len(value) > 0
    THEN versionParam_authDetails(info, validateAuthToken(v, value))
    ELSE [err |-> "none", msg |-> "", v |-> v,
          info |-> IF info.type = VersionParamAuthorizationToken
                   THEN info @@ [name |-> "AUTHORIZATION_TOKEN"]
                   ELSE IF info.type = VersionParamDeliveryTimeout
                   THEN info @@ [name |-> "DELIVERY_TIMEOUT"]
                   ELSE IF info.type = VersionParamMaxCacheDuration
                   THEN info @@ [name |-> "MAX_CACHE_DURATION"]
                   ELSE info]

RECURSIVE validateVersionParameters_loop(_, _, _, _, _)

validateVersionParameters_known(data, pos, left, params, known) ==
    IF known.err # "none"
    THEN [err |-> known.err, msg |-> known.msg, v |-> known.v, params |-> << >>,
          pos |-> pos]
    ELSE validateVersionParameters_loop(known.v, data, pos, left - 1,
                                        Append(params, known.info))

validateVersionParameters_param(v, data, left, params, p) ==
    IF p.err # "none"
    THEN [err |-> p.err, msg |-> p.msg, v |-> v, params |-> << >>, pos |-> p.pos]
    ELSE validateVersionParameters_known(data, p.pos, left, params,
                                         versionParam(v, p.info, p.bytes))

validateVersionParameters_loop(v, data, pos, left, params) ==
    IF left = 0
    THEN [err |-> "none", msg |-> "", v |-> v, params |-> params, pos |-> pos]
    ELSE validateVersionParameters_param(v, data, left, params, readParameter(data, pos))

validateVersionParameters(v, data, pos, numParams) ==
    validateVersionParameters_loop(v, data, pos, numParams, << >>)

versionParameterList_params(result, params) ==
    IF params.err # "none" THEN Failed(params.err, params.msg, params.v)
    ELSE Done(params.v, result @@ [parameters |-> params.params])

versionParameterList_numParams(v, data, result, numParams) ==
    IF numParams.err # "none" THEN Raw(numParams.err, v)
    ELSE IF makeslicePanics(numParams)
    THEN Failed("panic", "makeslice: cap out of range", v)
    ELSE IF numParams.value > 0
    THEN versionParameterList_params(
             result @@ [num_parameters |-> numParams.value],
             validateVersionParameters(v, data, numParams.pos, numParams.value))
    ELSE Done(v, result @@ [num_parameters |-> numParams.value])

\* The tail shared by the messages that end in a version-parameter list: the count,
\* and the list when the count is positive (lines 602-615, 683-696, 817-830,
\* 863-876, 962-975).
versionParameterList(v, data, pos, result) ==
    versionParameterList_numParams(v, data, result, VarIntDecode(data, pos))

(***************************************************************************)
(* Names.                                                                  *)
(***************************************************************************)
isValidMessageType(msgType) ==
    msgType \in {ClientSetup, ServerSetup, Goaway, MaxRequestID, RequestsBlocked,
                 Subscribe, SubscribeOK, SubscribeError, Unsubscribe, SubscribeUpdate,
                 SubscribeDone, Fetch, FetchOK, FetchError, FetchCancel,
                 TrackStatusRequest, TrackStatus, Announce, AnnounceOK, AnnounceError,
                 Unannounce, AnnounceCancel, SubscribeAnnounces, SubscribeAnnouncesOK,
                 SubscribeAnnouncesError, UnsubscribeAnnounces}

getMessageTypeName(msgType) ==
    CASE msgType = ClientSetup -> "CLIENT_SETUP"
      [] msgType = ServerSetup -> "SERVER_SETUP"
      [] msgType = Goaway -> "GOAWAY"
      [] msgType = MaxRequestID -> "MAX_REQUEST_ID"
      [] msgType = RequestsBlocked -> "REQUESTS_BLOCKED"
      [] msgType = Subscribe -> "SUBSCRIBE"
      [] msgType = SubscribeOK -> "SUBSCRIBE_OK"
      [] msgType = SubscribeError -> "SUBSCRIBE_ERROR"
      [] msgType = Unsubscribe -> "UNSUBSCRIBE"
      [] msgType = SubscribeUpdate -> "SUBSCRIBE_UPDATE"
      [] msgType = SubscribeDone -> "SUBSCRIBE_DONE"
      [] msgType = Fetch -> "FETCH"
      [] msgType = FetchOK -> "FETCH_OK"
      [] msgType = FetchError -> "FETCH_ERROR"
      [] msgType = FetchCancel -> "FETCH_CANCEL"
      [] msgType = TrackStatusRequest -> "TRACK_STATUS_REQUEST"
      [] msgType = TrackStatus -> "TRACK_STATUS"
      [] msgType = Announce -> "ANNOUNCE"
      [] msgType = AnnounceOK -> "ANNOUNCE_OK"
      [] msgType = AnnounceError -> "ANNOUNCE_ERROR"
      [] msgType = Unannounce -> "UNANNOUNCE"
      [] msgType = AnnounceCancel -> "ANNOUNCE_CANCEL"
      [] msgType = SubscribeAnnounces -> "SUBSCRIBE_ANNOUNCES"
      [] msgType = SubscribeAnnouncesOK -> "SUBSCRIBE_ANNOUNCES_OK"
      [] msgType = SubscribeAnnouncesError -> "SUBSCRIBE_ANNOUNCES_ERROR"
      [] msgType = UnsubscribeAnnounces -> "UNSUBSCRIBE_ANNOUNCES"
      [] OTHER -> "UNKNOWN"

isValidFilterType(filterType) ==
    filterType >= NextGroupStart /\ filterType <= AbsoluteRange

getFilterTypeName(filterType) ==
    CASE filterType = NextGroupStart -> "NEXT_GROUP_START"
      [] filterType = LatestObject -> "LATEST_OBJECT"
      [] filterType = AbsoluteStart -> "ABSOLUTE_START"
      [] filterType = AbsoluteRange -> "ABSOLUTE_RANGE"
      [] OTHER -> "UNKNOWN"

getGroupOrderName(order) ==
    CASE order = GroupOrderDefault -> "DEFAULT"
      [] order = GroupOrderAscending -> "ASCENDING"
      [] order = GroupOrderDescending -> "DESCENDING"
      [] OTHER -> "UNKNOWN"

isValidObjectStatus(status) ==
    \/ status = ObjectStatusNormal
    \/ status = ObjectStatusDoesNotExist
    \/ status = ObjectStatusEndOfGroup
    \/ status = ObjectStatusEndOfTrack

getObjectStatusName(status) ==
    CASE status = ObjectStatusNormal -> "NORMAL"
      [] status = ObjectStatusDoesNotExist -> "OBJECT_DOES_NOT_EXIST"
      [] status = ObjectStatusEndOfGroup -> "END_OF_GROUP"
      [] status = ObjectStatusEndOfTrack -> "END_OF_TRACK"
      [] OTHER -> "UNKNOWN"

\* isValidDatagramType with no upper end.
isValidDatagramType_open(datagramType) == datagramType >= ObjectDatagramNoExt

isValidDatagramType(datagramType) ==
    datagramType >= ObjectDatagramNoExt /\ datagramType <= ObjectStatusWithExt

getDatagramTypeName(datagramType) ==
    CASE datagramType = ObjectDatagramNoExt -> "OBJECT_DATAGRAM_NO_EXT"
      [] datagramType = ObjectDatagramWithExt -> "OBJECT_DATAGRAM_WITH_EXT"
      [] datagramType = ObjectStatusNoExt -> "OBJECT_STATUS_NO_EXT"
      [] datagramType = ObjectStatusWithExt -> "OBJECT_STATUS_WITH_EXT"
      [] OTHER -> "UNKNOWN"


(***************************************************************************)
(* Control messages: CLIENT_SETUP, SERVER_SETUP.                           *)
(***************************************************************************)
setupParameterList_params(result, params) ==
    IF params.err # "none" THEN Failed(params.err, params.msg, params.v)
    ELSE Done(params.v, result @@ [parameters |-> params.params])

setupParameterList_numParams(v, data, result, numParams) ==
    IF numParams.err # "none" THEN Raw(numParams.err, v)
    ELSE IF makeslicePanics(numParams)
    THEN Failed("panic", "makeslice: cap out of range", v)
    ELSE setupParameterList_params(
             result @@ [num_parameters |-> numParams.value],
             validateSetupParameters(v, data, numParams.pos, numParams.value))

\* The parameter count and the setup parameters that end both setup messages
\* (lines 432-444, 460-472).
setupParameterList(v, data, pos, result) ==
    setupParameterList_numParams(v, data, result, VarIntDecode(data, pos))

RECURSIVE validateClientSetup_loop(_, _, _, _, _, _)

validateClientSetup_version(v, data, numVersions, left, versions, version) ==
    IF version.err # "none" THEN Raw(version.err, v)
    ELSE validateClientSetup_loop(v, data, version.pos, numVersions, left - 1,
                                  Append(versions, FormatVersion(version.value)))

\* Lines 422-430: the versions still to read, then the parameters.
validateClientSetup_loop(v, data, pos, numVersions, left, versions) ==
    IF left = 0
    THEN setupParameterList(v, data, pos, [num_versions |-> numVersions,
                                           supported_versions |-> versions])
    ELSE validateClientSetup_version(v, data, numVersions, left, versions,
                                     VarIntDecode(data, pos))

validateClientSetup_numVersions(v, data, numVersions) ==
    IF numVersions.err # "none" THEN Raw(numVersions.err, v)
    ELSE IF makeslicePanics(numVersions)
    THEN Failed("panic", "makeslice: len out of range", v)
    ELSE validateClientSetup_loop(v, data, numVersions.pos, numVersions.value,
                                  numVersions.value, << >>)

validateClientSetup(v, data) ==
    validateClientSetup_numVersions(v, data, VarIntDecode(data, 0))

validateServerSetup_version(v, data, version) ==
    IF version.err # "none" THEN Raw(version.err, v)
    ELSE setupParameterList(v, data, version.pos,
                            [selected_version |-> FormatVersion(version.value)])

validateServerSetup(v, data) ==
    validateServerSetup_version(v, data, VarIntDecode(data, 0))

(***************************************************************************)
(* The full track name of SUBSCRIBE, FETCH and TRACK_STATUS_REQUEST.       *)
(***************************************************************************)
readFullTrackName_trackName(fields, trackName) ==
    [err |-> trackName.err, msg |-> "",
     at |-> IF trackName.err # "none" THEN "name" ELSE "",
     fields |-> IF trackName.err # "none" THEN << >> ELSE fields,
     name |-> trackName.bytes, pos |-> trackName.pos]

readFullTrackName_nameLength(data, fields, nameLength) ==
    IF nameLength.err # "none"
    THEN [err |-> nameLength.err, msg |-> "", at |-> "name length", fields |-> << >>,
          name |-> << >>, pos |-> nameLength.pos]
    ELSE readFullTrackName_trackName(fields, MakeAndReadFull(data, nameLength))

readFullTrackName_namespace(data, namespace) ==
    IF namespace.err # "none"
    THEN [err |-> namespace.err, msg |-> namespace.msg, at |-> "namespace",
          fields |-> << >>, name |-> << >>, pos |-> namespace.pos]
    ELSE readFullTrackName_nameLength(data, namespace.fields,
                                      VarIntDecode(data, namespace.pos))

\* Lines 498-518, 745-765, 940-960: the namespace tuple, then the length and the
\* bytes of the name; at says which of them failed.
readFullTrackName(data, pos) == readFullTrackName_namespace(data, readTuple(data, pos))

(***************************************************************************)
(* SUBSCRIBE.  sub holds the locals the stored entry is made of:           *)
(* requestID, trackAlias, fullTrackName, and later filterType, startGroup. *)
(***************************************************************************)
\* subscribeRangeInverted refusing the one-group range too.
subscribeRangeInverted_orEqual(endGroup, startGroup) == endGroup <= startGroup

\* Lines 594-599: an AbsoluteRange must not end before the group it starts in.
subscribeRangeInverted(endGroup, startGroup) == endGroup < startGroup

\* storeSubscription keyed by the track alias.
storeSubscription_byAlias(v, requestID, trackAlias, fullTrackName, filterType) ==
    [v EXCEPT !.activeSubscriptions =
        With(@, trackAlias, [track_alias |-> trackAlias,
                             full_track_name |-> fullTrackName,
                             filter_type |-> filterType])]

\* Lines 617-622: the entry of activeSubscriptions written on success.
storeSubscription(v, requestID, trackAlias, fullTrackName, filterType) ==
    [v EXCEPT !.activeSubscriptions =
        With(@, requestID, [track_alias |-> trackAlias,
                            full_track_name |-> fullTrackName,
                            filter_type |-> filterType])]

\* validateSubscribe_params storing the entry before it looks at the parameters.
validateSubscribe_params_storeFirst(sub, params) ==
    IF params.err # "none"
    THEN [params EXCEPT !.v = storeSubscription(params.v, sub.requestID, sub.trackAlias,
                                                sub.fullTrackName, sub.filterType)]
    ELSE Done(storeSubscription(params.v, sub.requestID, sub.trackAlias,
                                sub.fullTrackName, sub.filterType),
              params.result)

\* Lines 602-624: the store is the last statement, after the parameters.
validateSubscribe_params(sub, params) ==
    IF params.err # "none" THEN params
    ELSE Done(storeSubscription(params.v, sub.requestID, sub.trackAlias,
                                sub.fullTrackName, sub.filterType),
              params.result)

\* Lines 602-624: the version parameters, then the store.
subscribeCommit(v, data, pos, result, sub) ==
    validateSubscribe_params(sub, versionParameterList(v, data, pos, result))

validateSubscribe_endGroup(v, data, result, sub, endGroup) ==
    IF endGroup.err # "none" THEN Raw(endGroup.err, v)
    ELSE IF subscribeRangeInverted(endGroup.value, sub.startGroup)
    THEN Failed("ValidationError", "end group must be >= start group", v)
    ELSE subscribeCommit(v, data, endGroup.pos,
                         result @@ [end_group |-> endGroup.value], sub)

\* Lines 586-600: the end group of an AbsoluteRange, of no other filter.
validateSubscribe_startLocation(v, data, pos, result, sub) ==
    IF sub.filterType = AbsoluteRange
    THEN validateSubscribe_endGroup(v, data, result, sub, VarIntDecode(data, pos))
    ELSE subscribeCommit(v, data, pos, result, sub)

validateSubscribe_startObject(v, data, result, sub, startObject) ==
    IF startObject.err # "none" THEN Raw(startObject.err, v)
    ELSE validateSubscribe_startLocation(v, data, startObject.pos,
             result @@ [start_location |-> [group |-> sub.startGroup,
                                            object |-> startObject.value]],
             sub)

validateSubscribe_startGroup(v, data, result, sub, startGroup) ==
    IF startGroup.err # "none" THEN Raw(startGroup.err, v)
    ELSE validateSubscribe_startObject(v, data, result,
                                       [sub EXCEPT !.startGroup = startGroup.value],
                                       VarIntDecode(data, startGroup.pos))

validateSubscribe_filterType(v, data, result, sub, filterType) ==
    IF filterType.err # "none" THEN Raw(filterType.err, v)
    ELSE IF ~isValidFilterType(filterType.value)
    THEN Failed("ProtocolViolation", "invalid filter type", v)
    ELSE IF filterType.value = AbsoluteStart \/ filterType.value = AbsoluteRange
    THEN validateSubscribe_startGroup(v, data,
             result @@ [filter_type |-> getFilterTypeName(filterType.value)],
             [sub EXCEPT !.filterType = filterType.value],
             VarIntDecode(data, filterType.pos))
    ELSE validateSubscribe_startLocation(v, data, filterType.pos,
             result @@ [filter_type |-> getFilterTypeName(filterType.value)],
             [sub EXCEPT !.filterType = filterType.value])

validateSubscribe_forwardByte(v, data, result, sub, forwardByte) ==
    IF forwardByte.err # "none" THEN Failed("ValidationError", "missing forward flag", v)
    ELSE IF forwardByte.bytes[1] > 1
    THEN Failed("ProtocolViolation", "invalid forward value", v)
    ELSE validateSubscribe_filterType(v, data,
                                      result @@ [forward |-> (forwardByte.bytes[1] = 1)],
                                      sub, VarIntDecode(data, forwardByte.pos))

validateSubscribe_orderByte(v, data, result, sub, orderByte) ==
    IF orderByte.err # "none" THEN Failed("ValidationError", "missing group order", v)
    ELSE IF orderByte.bytes[1] > 2
    THEN Failed("ProtocolViolation", "invalid group order", v)
    ELSE validateSubscribe_forwardByte(v, data,
             result @@ [group_order |-> getGroupOrderName(orderByte.bytes[1])],
             sub, ReadFull(data, orderByte.pos, 1))

validateSubscribe_priorityByte(v, data, result, sub, priorityByte) ==
    IF priorityByte.err # "none"
    THEN Failed("ValidationError", "missing subscriber priority", v)
    ELSE validateSubscribe_orderByte(v, data,
             result @@ [subscriber_priority |-> priorityByte.bytes[1]],
             sub, ReadFull(data, priorityByte.pos, 1))

\* Lines 520-529: the namespace and the full track name, checked once both are read.
validateSubscribe_trackName(v, data, pos, result, sub) ==
    IF NewTrackNamespace(sub.fullTrackName.Namespace).err # "none"
    THEN Failed("ValidationError", "invalid track namespace", v)
    ELSE IF NewFullTrackName(sub.fullTrackName.Namespace, sub.fullTrackName.Name).err
            # "none"
    THEN Failed("ValidationError", "invalid track name", v)
    ELSE validateSubscribe_priorityByte(v, data, result, sub, ReadFull(data, pos, 1))

validateSubscribe_fullTrackName(v, data, result, sub, ftn) ==
    IF ftn.err = "panic" THEN Failed(ftn.err, ftn.msg, v)
    ELSE IF ftn.err # "none" /\ ftn.at = "name"
    THEN Failed("ValidationError", "insufficient data for track name", v)
    ELSE IF ftn.err # "none" THEN Failed(ftn.err, ftn.msg, v)
    ELSE validateSubscribe_trackName(v, data, ftn.pos,
             result @@ [track_namespace |-> HexEncodeAll(ftn.fields),
                        track_name |-> HexEncodeToString(ftn.name)],
             [sub EXCEPT !.fullTrackName = [Namespace |-> ftn.fields,
                                            Name |-> ftn.name]])

validateSubscribe_trackAlias(v, data, result, sub, trackAlias) ==
    IF trackAlias.err # "none" THEN Raw(trackAlias.err, v)
    ELSE validateSubscribe_fullTrackName(v, data,
             result @@ [track_alias |-> trackAlias.value],
             [sub EXCEPT !.trackAlias = trackAlias.value],
             readFullTrackName(data, trackAlias.pos))

validateSubscribe_requestID(v, data, requestID) ==
    IF requestID.err # "none" THEN Raw(requestID.err, v)
    ELSE IF validateRequestID(v, requestID.value, TRUE).err # "none"
    THEN Failed(validateRequestID(v, requestID.value, TRUE).err,
                validateRequestID(v, requestID.value, TRUE).msg, v)
    ELSE validateSubscribe_trackAlias(v, data, [request_id |-> requestID.value],
             [requestID |-> requestID.value, trackAlias |-> 0,
              fullTrackName |-> [Namespace |-> << >>, Name |-> << >>],
              filterType |-> 0, startGroup |-> 0],
             VarIntDecode(data, requestID.pos))

validateSubscribe(v, data) == validateSubscribe_requestID(v, data, VarIntDecode(data, 0))

(***************************************************************************)
(* SUBSCRIBE_OK                                                            *)
(***************************************************************************)
validateSubscribeOK_largestObject(v, data, result, largestGroup, largestObject) ==
    IF largestObject.err # "none" THEN Raw(largestObject.err, v)
    ELSE versionParameterList(v, data, largestObject.pos,
             result @@ [largest_location |-> [group |-> largestGroup,
                                              object |-> largestObject.value]])

validateSubscribeOK_largestGroup(v, data, result, largestGroup) ==
    IF largestGroup.err # "none" THEN Raw(largestGroup.err, v)
    ELSE validateSubscribeOK_largestObject(v, data, result, largestGroup.value,
                                           VarIntDecode(data, largestGroup.pos))

validateSubscribeOK_existsByte(v, data, result, existsByte) ==
    IF existsByte.err # "none"
    THEN Failed("ValidationError", "missing content exists flag", v)
    ELSE IF existsByte.bytes[1] > 1
    THEN Failed("ProtocolViolation", "invalid content exists value", v)
    ELSE IF existsByte.bytes[1] = 1
    THEN validateSubscribeOK_largestGroup(v, data,
                                          result @@ [content_exists |-> TRUE],
                                          VarIntDecode(data, existsByte.pos))
    ELSE versionParameterList(v, data, existsByte.pos,
                              result @@ [content_exists |-> FALSE])

validateSubscribeOK_orderByte(v, data, result, orderByte) ==
    IF orderByte.err # "none" THEN Failed("ValidationError", "missing group order", v)
    ELSE IF orderByte.bytes[1] = 0 \/ orderByte.bytes[1] > 2
    THEN Failed("ProtocolViolation", "invalid group order in SUBSCRIBE_OK", v)
    ELSE validateSubscribeOK_existsByte(v, data,
             result @@ [group_order |-> getGroupOrderName(orderByte.bytes[1])],
             ReadFull(data, orderByte.pos, 1))

validateSubscribeOK_expires(v, data, result, expires) ==
    IF expires.err # "none" THEN Raw(expires.err, v)
    ELSE validateSubscribeOK_orderByte(v, data,
                                       result @@ [expires_ms |-> expires.value],
                                       ReadFull(data, expires.pos, 1))

\* The request id is read and reported; validateRequestID is not called on it.
validateSubscribeOK_requestID(v, data, requestID) ==
    IF requestID.err # "none" THEN Raw(requestID.err, v)
    ELSE validateSubscribeOK_expires(v, data, [request_id |-> requestID.value],
                                     VarIntDecode(data, requestID.pos))

validateSubscribeOK(v, data) ==
    validateSubscribeOK_requestID(v, data, VarIntDecode(data, 0))

(***************************************************************************)
(* FETCH                                                                   *)
(***************************************************************************)
fetchTypeNames == <<"STANDALONE", "RELATIVE_JOINING", "ABSOLUTE_JOINING">>

\* Lines 795-800: a standalone range must not end before it starts.
fetchRangeInverted(startLoc, endLoc) == Less(endLoc, startLoc)

\* Line 833: the entry of activeFetches written on success.
storeFetch(v, requestID, result) ==
    [v EXCEPT !.activeFetches = With(@, requestID, result)]

validateFetch_params(requestID, params) ==
    IF params.err # "none" THEN params
    ELSE Done(storeFetch(params.v, requestID, params.result), params.result)

\* Lines 817-835: the version parameters, then the store.
fetchCommit(v, data, pos, result, requestID) ==
    validateFetch_params(requestID, versionParameterList(v, data, pos, result))

validateFetch_endObject(v, data, result, requestID, startLoc, endGroup, endObject) ==
    IF endObject.err # "none" THEN Raw(endObject.err, v)
    ELSE IF fetchRangeInverted(startLoc, [GroupID |-> endGroup,
                                          ObjectID |-> endObject.value])
    THEN Failed("ValidationError", "end location must be >= start location", v)
    ELSE fetchCommit(v, data, endObject.pos,
                     result @@ [end |-> [group |-> endGroup,
                                         object |-> endObject.value]],
                     requestID)

validateFetch_endGroup(v, data, result, requestID, startLoc, endGroup) ==
    IF endGroup.err # "none" THEN Raw(endGroup.err, v)
    ELSE validateFetch_endObject(v, data, result, requestID, startLoc, endGroup.value,
                                 VarIntDecode(data, endGroup.pos))

validateFetch_startObject(v, data, result, requestID, startGroup, startObject) ==
    IF startObject.err # "none" THEN Raw(startObject.err, v)
    ELSE validateFetch_endGroup(v, data,
             result @@ [start |-> [group |-> startGroup,
                                   object |-> startObject.value]],
             requestID,
             [GroupID |-> startGroup, ObjectID |-> startObject.value],
             VarIntDecode(data, startObject.pos))

validateFetch_startGroup(v, data, result, requestID, startGroup) ==
    IF startGroup.err # "none" THEN Raw(startGroup.err, v)
    ELSE validateFetch_startObject(v, data, result, requestID, startGroup.value,
                                   VarIntDecode(data, startGroup.pos))

\* Lines 744-765: the track of a standalone fetch; a failure is returned as it is.
validateFetch_fullTrackName(v, data, result, requestID, ftn) ==
    IF ftn.err # "none" THEN Failed(ftn.err, ftn.msg, v)
    ELSE validateFetch_startGroup(v, data,
             result @@ [track_namespace |-> HexEncodeAll(ftn.fields),
                        track_name |-> HexEncodeToString(ftn.name)],
             requestID, VarIntDecode(data, ftn.pos))

validateFetch_joiningStart(v, data, result, requestID, joiningStart) ==
    IF joiningStart.err # "none" THEN Raw(joiningStart.err, v)
    ELSE fetchCommit(v, data, joiningStart.pos,
                     result @@ [joining_start |-> joiningStart.value], requestID)

validateFetch_subscribeID(v, data, result, requestID, subscribeID) ==
    IF subscribeID.err # "none" THEN Raw(subscribeID.err, v)
    ELSE validateFetch_joiningStart(v, data,
             result @@ [joining_subscribe_id |-> subscribeID.value],
             requestID, VarIntDecode(data, subscribeID.pos))

validateFetch_fetchType(v, data, result, requestID, fetchType) ==
    IF fetchType.err # "none" THEN Raw(fetchType.err, v)
    ELSE IF fetchType.value < 1 \/ fetchType.value > 3
    THEN Failed("ProtocolViolation", "invalid fetch type", v)
    ELSE IF fetchType.value = 1
    THEN validateFetch_fullTrackName(v, data,
             result @@ [fetch_type |-> fetchTypeNames[fetchType.value]],
             requestID, readFullTrackName(data, fetchType.pos))
    ELSE validateFetch_subscribeID(v, data,
             result @@ [fetch_type |-> fetchTypeNames[fetchType.value]],
             requestID, VarIntDecode(data, fetchType.pos))

validateFetch_orderByte(v, data, result, requestID, orderByte) ==
    IF orderByte.err # "none" THEN Failed("ValidationError", "missing group order", v)
    ELSE IF orderByte.bytes[1] > 2
    THEN Failed("ProtocolViolation", "invalid group order", v)
    ELSE validateFetch_fetchType(v, data,
             result @@ [group_order |-> getGroupOrderName(orderByte.bytes[1])],
             requestID, VarIntDecode(data, orderByte.pos))

validateFetch_priorityByte(v, data, result, requestID, priorityByte) ==
    IF priorityByte.err # "none"
    THEN Failed("ValidationError", "missing subscriber priority", v)
    ELSE validateFetch_orderByte(v, data,
             result @@ [subscriber_priority |-> priorityByte.bytes[1]],
             requestID, ReadFull(data, priorityByte.pos, 1))

validateFetch_requestID(v, data, requestID) ==
    IF requestID.err # "none" THEN Raw(requestID.err, v)
    ELSE IF validateRequestID(v, requestID.value, TRUE).err # "none"
    THEN Failed(validateRequestID(v, requestID.value, TRUE).err,
                validateRequestID(v, requestID.value, TRUE).msg, v)
    ELSE validateFetch_priorityByte(v, data, [request_id |-> requestID.value],
                                    requestID.value, ReadFull(data, requestID.pos, 1))

validateFetch(v, data) == validateFetch_requestID(v, data, VarIntDecode(data, 0))

(***************************************************************************)
(* ANNOUNCE, GOAWAY, MAX_REQUEST_ID, TRACK_STATUS_REQUEST                  *)
(***************************************************************************)
validateAnnounce_namespace(v, data, result, namespace) ==
    IF namespace.err # "none" THEN Failed(namespace.err, namespace.msg, v)
    ELSE versionParameterList(v, data, namespace.pos,
             result @@ [track_namespace |-> HexEncodeAll(namespace.fields)])

validateAnnounce_requestID(v, data, requestID) ==
    IF requestID.err # "none" THEN Raw(requestID.err, v)
    ELSE IF validateRequestID(v, requestID.value, TRUE).err # "none"
    THEN Failed(validateRequestID(v, requestID.value, TRUE).err,
                validateRequestID(v, requestID.value, TRUE).msg, v)
    ELSE validateAnnounce_namespace(v, data, [request_id |-> requestID.value],
                                    readTuple(data, requestID.pos))

validateAnnounce(v, data) == validateAnnounce_requestID(v, data, VarIntDecode(data, 0))

validateGoaway_uri(v, uri) ==
    IF uri.err # "none" THEN Failed("ValidationError", "insufficient data for URI", v)
    ELSE Done(v, [new_session_uri |-> uri.bytes])

validateGoaway_uriLength(v, data, uriLength) ==
    IF uriLength.err # "none" THEN Raw(uriLength.err, v)
    ELSE IF uriLength.value > MaxUriLength
    THEN Failed("ProtocolViolation", "new session URI too long", v)
    ELSE IF uriLength.value > 0
    THEN validateGoaway_uri(v, ReadFull(data, uriLength.pos, uriLength.value))
    ELSE Done(v, [new_session_uri |-> NilResult])

validateGoaway(v, data) == validateGoaway_uriLength(v, data, VarIntDecode(data, 0))

\* validateMaxRequestID storing the value as the client's ceiling.
validateMaxRequestID_requestID_stored(v, requestID) ==
    IF requestID.err # "none" THEN Raw(requestID.err, v)
    ELSE Done([v EXCEPT !.maxRequestIDClient = requestID.value],
              [max_request_id |-> requestID.value])

\* Lines 914-923: the value is decoded and reported; it is compared with nothing
\* and stored nowhere.
validateMaxRequestID_requestID(v, requestID) ==
    IF requestID.err # "none" THEN Raw(requestID.err, v)
    ELSE Done(v, [max_request_id |-> requestID.value])

validateMaxRequestID(v, data) == validateMaxRequestID_requestID(v, VarIntDecode(data, 0))

validateTrackStatusRequest_fullTrackName(v, data, result, ftn) ==
    IF ftn.err # "none" THEN Failed(ftn.err, ftn.msg, v)
    ELSE versionParameterList(v, data, ftn.pos,
             result @@ [track_namespace |-> HexEncodeAll(ftn.fields),
                        track_name |-> HexEncodeToString(ftn.name)])

validateTrackStatusRequest_requestID(v, data, requestID) ==
    IF requestID.err # "none" THEN Raw(requestID.err, v)
    ELSE IF validateRequestID(v, requestID.value, TRUE).err # "none"
    THEN Failed(validateRequestID(v, requestID.value, TRUE).err,
                validateRequestID(v, requestID.value, TRUE).msg, v)
    ELSE validateTrackStatusRequest_fullTrackName(v, data,
             [request_id |-> requestID.value],
             readFullTrackName(data, requestID.pos))

validateTrackStatusRequest(v, data) ==
    validateTrackStatusRequest_requestID(v, data, VarIntDecode(data, 0))

(***************************************************************************)
(* validateControlMessage                                                  *)
(***************************************************************************)
\* Lines 330-405: the payload decoder of the message type; the types without one
\* keep the payload as hex.
controlPayload(v, msgType, payload) ==
    CASE msgType = ClientSetup -> validateClientSetup(v, payload)
      [] msgType = ServerSetup -> validateServerSetup(v, payload)
      [] msgType = Subscribe -> validateSubscribe(v, payload)
      [] msgType = SubscribeOK -> validateSubscribeOK(v, payload)
      [] msgType = Fetch -> validateFetch(v, payload)
      [] msgType = Announce -> validateAnnounce(v, payload)
      [] msgType = Goaway -> validateGoaway(v, payload)
      [] msgType = MaxRequestID -> validateMaxRequestID(v, payload)
      [] msgType = TrackStatusRequest -> validateTrackStatusRequest(v, payload)
      [] OTHER -> Done(v, [raw_payload |-> HexEncodeToString(payload)])

validateControlMessage_details(msgType, msgLength, details) ==
    IF details.err # "none" THEN details
    ELSE Done(details.v, details.result @@ [type |-> getMessageTypeName(msgType),
                                            type_value |-> msgType,
                                            length |-> msgLength])

\* validateControlMessage_payload handing the read error on as it is.
validateControlMessage_payload_bare(v, msgType, msgLength, payload) ==
    IF payload.err # "none"
    THEN Raw(payload.err, v)
    ELSE validateControlMessage_details(msgType, msgLength,
                                        controlPayload(v, msgType, payload.bytes))

\* Lines 316-320: a short payload is a ValidationError.
validateControlMessage_payload(v, msgType, msgLength, payload) ==
    IF payload.err # "none"
    THEN Failed("ValidationError", "message payload incomplete", v)
    ELSE validateControlMessage_details(msgType, msgLength,
                                        controlPayload(v, msgType, payload.bytes))

\* validateControlMessage_lengthBytes taking the rest of the buffer as the payload.
validateControlMessage_lengthBytes_toEnd(v, data, msgType, lengthBytes) ==
    IF lengthBytes.err # "none"
    THEN Failed("ValidationError", "insufficient data for message length", v)
    ELSE validateControlMessage_payload(v, msgType, BigEndian(lengthBytes.bytes),
             [err |-> "none", bytes |-> ReadAll(data, lengthBytes.pos),
              pos |-> Len(data)])

\* Lines 309-320: the 16-bit length, then exactly that many bytes of payload.
validateControlMessage_lengthBytes(v, data, msgType, lengthBytes) ==
    IF lengthBytes.err # "none"
    THEN Failed("ValidationError", "insufficient data for message length", v)
    ELSE validateControlMessage_payload(v, msgType, BigEndian(lengthBytes.bytes),
             ReadFull(data, lengthBytes.pos, BigEndian(lengthBytes.bytes)))

validateControlMessage_msgType(v, data, msgType) ==
    IF msgType.err # "none"
    THEN Failed("ValidationError", "failed to read message type", v)
    ELSE IF ~isValidMessageType(msgType.value)
    THEN Failed("ProtocolViolation", "unknown message type", v)
    ELSE validateControlMessage_lengthBytes(v, data, msgType.value,
                                            ReadFull(data, msgType.pos, 2))

validateControlMessage(v, data) ==
    validateControlMessage_msgType(v, data, VarIntDecode(data, 0))

(***************************************************************************)
(* Extension headers and objects.                                          *)
(***************************************************************************)
RECURSIVE validateExtensionHeaders_loop(_, _, _)

\* The header as it stands once its type is read (lines 1561-1565).
extensionHeader(headerType) ==
    IF headerType = ExtHeaderPriorGroupIDGap
    THEN [type |-> headerType, name |-> "PRIOR_GROUP_ID_GAP"]
    ELSE [type |-> headerType]

validateExtensionHeaders_bytes(data, headers, headerType, length, value) ==
    IF value.err = "panic"
    THEN [err |-> "panic", msg |-> "makeslice: len out of range", headers |-> << >>]
    ELSE IF value.err # "none"
    THEN [err |-> "ValidationError",
          msg |-> "insufficient data for extension header value", headers |-> << >>]
    ELSE validateExtensionHeaders_loop(data, value.pos,
             Append(headers, extensionHeader(headerType)
                             @@ [value |-> HexEncodeToString(value.bytes),
                                 length |-> length]))

validateExtensionHeaders_length(data, headers, headerType, length) ==
    IF length.err # "none" THEN [err |-> length.err, msg |-> "", headers |-> << >>]
    ELSE validateExtensionHeaders_bytes(data, headers, headerType, length.value,
                                        MakeAndReadFull(data, length))

validateExtensionHeaders_value(data, headers, headerType, value) ==
    IF value.err # "none" THEN [err |-> value.err, msg |-> "", headers |-> << >>]
    ELSE validateExtensionHeaders_loop(data, value.pos,
             Append(headers, extensionHeader(headerType) @@ [value |-> value.value]))

validateExtensionHeaders_headerType(data, headers, headerType) ==
    IF headerType.err # "none" THEN [err |-> headerType.err, msg |-> "", headers |-> << >>]
    ELSE IF headerType.value % 2 = 0
    THEN validateExtensionHeaders_value(data, headers, headerType.value,
                                        VarIntDecode(data, headerType.pos))
    ELSE validateExtensionHeaders_length(data, headers, headerType.value,
                                         VarIntDecode(data, headerType.pos))

\* Lines 1553-1587: headers while bytes remain.
validateExtensionHeaders_loop(data, pos, headers) ==
    IF Len(data) - pos <= 0 THEN [err |-> "none", msg |-> "", headers |-> headers]
    ELSE validateExtensionHeaders_headerType(data, headers, VarIntDecode(data, pos))

validateExtensionHeaders(data) == validateExtensionHeaders_loop(data, 0, << >>)

\* An object, or a part of one, that could not be read.
NoObject(err, msg, pos) ==
    [err |-> err, msg |-> msg, obj |-> NilResult, length |-> 0, pos |-> pos]

readExtensions_headers(obj, length, pos, headers) ==
    IF headers.err # "none" THEN NoObject(headers.err, headers.msg, pos)
    ELSE [err |-> "none", msg |-> "",
          obj |-> obj @@ [extension_headers |-> headers.headers],
          length |-> length, pos |-> pos]

readExtensions_extData(obj, length, extData) ==
    IF extData.err = "panic"
    THEN NoObject("panic", "makeslice: len out of range", extData.pos)
    ELSE IF extData.err # "none"
    THEN NoObject("ValidationError", "insufficient data for extension headers",
                  extData.pos)
    ELSE readExtensions_headers(obj, length, extData.pos,
                                validateExtensionHeaders(extData.bytes))

readExtensions_extLength(data, obj, extLength) ==
    IF extLength.err # "none" THEN NoObject(extLength.err, "", extLength.pos)
    ELSE IF extLength.value > 0
    THEN readExtensions_extData(obj @@ [extension_headers_length |-> extLength.value],
                                extLength.value,
                                MakeAndReadFull(data, extLength))
    ELSE [err |-> "none", msg |-> "",
          obj |-> obj @@ [extension_headers_length |-> extLength.value],
          length |-> 0, pos |-> extLength.pos]

\* The extension-headers length and, when it is positive, that many bytes of headers
\* (lines 1375-1391, 1496-1512, 1645-1660).
readExtensions(data, pos, obj) ==
    readExtensions_extLength(data, obj, VarIntDecode(data, pos))

\* The payload as the record shows it: hex below 100 bytes, a byte count from there.
renderPayload(payload) ==
    IF Len(payload) < PayloadHexLimit
    THEN [hex |-> HexEncodeToString(payload)]
    ELSE [bytes |-> Len(payload)]

readPayloadOrStatus_payload(obj, payloadLength, payload) ==
    IF payload.err = "panic"
    THEN NoObject("panic", "makeslice: len out of range", payload.pos)
    ELSE IF payload.err # "none"
    THEN NoObject("ValidationError", "insufficient data for object payload", payload.pos)
    ELSE [err |-> "none", msg |-> "",
          obj |-> obj @@ [payload_length |-> payloadLength,
                          status |-> "NORMAL",
                          payload |-> renderPayload(payload.bytes)],
          length |-> 0, pos |-> payload.pos]

readPayloadOrStatus_status(obj, status) ==
    IF status.err # "none" THEN NoObject(status.err, "", status.pos)
    ELSE IF ~isValidObjectStatus(status.value)
    THEN NoObject("ProtocolViolation", "invalid object status", status.pos)
    ELSE [err |-> "none", msg |-> "",
          obj |-> obj @@ [payload_length |-> 0,
                          status |-> getObjectStatusName(status.value)],
          length |-> 0, pos |-> status.pos]

readPayloadOrStatus_payloadLength(data, obj, payloadLength) ==
    IF payloadLength.err # "none" THEN NoObject(payloadLength.err, "", payloadLength.pos)
    ELSE IF payloadLength.value = 0
    THEN readPayloadOrStatus_status(obj, VarIntDecode(data, payloadLength.pos))
    ELSE readPayloadOrStatus_payload(obj, payloadLength.value,
                                     MakeAndReadFull(data, payloadLength))

\* The payload length, then the status (length 0) or the payload (lines 1394-1425,
\* 1514-1545).
readPayloadOrStatus(data, pos, obj) ==
    readPayloadOrStatus_payloadLength(data, obj, VarIntDecode(data, pos))

\* What follows the extension headers of an object, when they were read.
readObjectBody(data, ext) ==
    IF ext.err # "none" THEN NoObject(ext.err, ext.msg, ext.pos)
    ELSE readPayloadOrStatus(data, ext.pos, ext.obj)

validateSubgroupObject_objectID(data, extensionsPresent, objectID) ==
    IF objectID.err # "none" THEN NoObject(objectID.err, "", objectID.pos)
    ELSE IF extensionsPresent
    THEN readObjectBody(data, readExtensions(data, objectID.pos,
                                             [object_id |-> objectID.value]))
    ELSE readPayloadOrStatus(data, objectID.pos, [object_id |-> objectID.value])

validateSubgroupObject(data, pos, extensionsPresent) ==
    validateSubgroupObject_objectID(data, extensionsPresent, VarIntDecode(data, pos))

validateFetchObject_priorityByte(data, obj, priorityByte) ==
    IF priorityByte.err # "none"
    THEN NoObject("ValidationError", "missing publisher priority", priorityByte.pos)
    ELSE readObjectBody(data,
             readExtensions(data, priorityByte.pos,
                            obj @@ [publisher_priority |-> priorityByte.bytes[1]]))

validateFetchObject_objectID(data, obj, objectID) ==
    IF objectID.err # "none" THEN NoObject(objectID.err, "", objectID.pos)
    ELSE validateFetchObject_priorityByte(data, obj @@ [object_id |-> objectID.value],
                                          ReadFull(data, objectID.pos, 1))

validateFetchObject_subgroupID(data, obj, subgroupID) ==
    IF subgroupID.err # "none" THEN NoObject(subgroupID.err, "", subgroupID.pos)
    ELSE validateFetchObject_objectID(data, obj @@ [subgroup_id |-> subgroupID.value],
                                      VarIntDecode(data, subgroupID.pos))

validateFetchObject_groupID(data, groupID) ==
    IF groupID.err # "none" THEN NoObject(groupID.err, "", groupID.pos)
    ELSE validateFetchObject_subgroupID(data, [group_id |-> groupID.value],
                                        VarIntDecode(data, groupID.pos))

validateFetchObject(data, pos) ==
    validateFetchObject_groupID(data, VarIntDecode(data, pos))

(***************************************************************************)
(* Data streams.                                                           *)
(***************************************************************************)
\* Lines 1265-1276: the six header types.
subgroupIDPresent(headerType) == headerType \in {12, 13}

extensionsPresent(headerType) == headerType \in {9, 11, 13}

subgroupIDValue(headerType) ==
    IF headerType \in {8, 9} THEN "0"
    ELSE IF headerType \in {10, 11} THEN "first_object_id"
    ELSE ""

RECURSIVE validateSubgroupHeader_loop(_, _, _, _, _, _, _)

\* The result of the loop without the subgroup id of the types 0x0A and 0x0B.
validateSubgroupHeader_objects_bare(v, result, headerType, objects) ==
    Done(v, result @@ [object_count |-> Len(objects), objects |-> objects])

\* Lines 1338-1343: the result once the loop has ended.
validateSubgroupHeader_objects(v, result, headerType, objects) ==
    Done(v, IF (headerType = 10 \/ headerType = 11) /\ Len(objects) > 0
            THEN [subgroup_id |-> objects[1].object_id]
                 @@ result @@ [object_count |-> Len(objects), objects |-> objects]
            ELSE result @@ [object_count |-> Len(objects), objects |-> objects])

\* The loop with an order check that lets an object repeat the id before it.
validateSubgroupHeader_obj_lax(v, data, result, headerType, objects, lastObjectID, obj) ==
    IF obj.err = "panic" THEN Failed(obj.err, obj.msg, v)
    ELSE IF obj.err # "none"
    THEN IF obj.err = "EOF" \/ Len(objects) > 0
         THEN validateSubgroupHeader_objects(v, result, headerType, objects)
         ELSE Failed(obj.err, obj.msg, v)
    ELSE IF Len(objects) > 0 /\ obj.obj.object_id < lastObjectID
    THEN Failed("ProtocolViolation", "object IDs must be ascending", v)
    ELSE validateSubgroupHeader_loop(v, data, obj.pos, result, headerType,
                                     Append(objects, obj.obj), obj.obj.object_id)

\* Lines 1311-1335: one turn of the loop, obj being what validateSubgroupObject gave.
validateSubgroupHeader_obj(v, data, result, headerType, objects, lastObjectID, obj) ==
    IF obj.err = "panic" THEN Failed(obj.err, obj.msg, v)
    ELSE IF obj.err # "none"
    THEN IF obj.err = "EOF" \/ Len(objects) > 0
         THEN validateSubgroupHeader_objects(v, result, headerType, objects)
         ELSE Failed(obj.err, obj.msg, v)
    ELSE IF Len(objects) > 0 /\ obj.obj.object_id <= lastObjectID
    THEN Failed("ProtocolViolation", "object IDs must be ascending", v)
    ELSE validateSubgroupHeader_loop(v, data, obj.pos, result, headerType,
                                     Append(objects, obj.obj), obj.obj.object_id)

validateSubgroupHeader_loop(v, data, pos, result, headerType, objects, lastObjectID) ==
    validateSubgroupHeader_obj(v, data, result, headerType, objects, lastObjectID,
        validateSubgroupObject(data, pos, extensionsPresent(headerType)))

validateSubgroupHeader_priorityByte(v, data, result, headerType, priorityByte) ==
    IF priorityByte.err # "none"
    THEN Failed("ValidationError", "missing publisher priority", v)
    ELSE validateSubgroupHeader_loop(v, data, priorityByte.pos,
             result @@ [publisher_priority |-> priorityByte.bytes[1]],
             headerType, << >>, 0)

validateSubgroupHeader_subgroupID(v, data, result, headerType, subgroupID) ==
    IF subgroupID.err # "none" THEN Raw(subgroupID.err, v)
    ELSE validateSubgroupHeader_priorityByte(v, data,
             result @@ [subgroup_id |-> subgroupID.value],
             headerType, ReadFull(data, subgroupID.pos, 1))

validateSubgroupHeader_groupID(v, data, result, headerType, groupID) ==
    IF groupID.err # "none" THEN Raw(groupID.err, v)
    ELSE IF subgroupIDPresent(headerType)
    THEN validateSubgroupHeader_subgroupID(v, data,
             result @@ [group_id |-> groupID.value],
             headerType, VarIntDecode(data, groupID.pos))
    ELSE validateSubgroupHeader_priorityByte(v, data,
             result @@ [group_id |-> groupID.value],
             headerType, ReadFull(data, groupID.pos, 1))

validateSubgroupHeader_trackAlias(v, data, result, headerType, trackAlias) ==
    IF trackAlias.err # "none" THEN Raw(trackAlias.err, v)
    ELSE validateSubgroupHeader_groupID(v, data,
             result @@ [track_alias |-> trackAlias.value],
             headerType, VarIntDecode(data, trackAlias.pos))

validateSubgroupHeader(v, data, pos, headerType) ==
    IF headerType \notin 8..13
    THEN Failed("ProtocolViolation", "invalid subgroup header type", v)
    ELSE validateSubgroupHeader_trackAlias(v, data,
             [header_type |-> "SUBGROUP_HEADER",
              subgroup_id_present |-> subgroupIDPresent(headerType),
              subgroup_id_value |-> subgroupIDValue(headerType),
              extensions_present |-> extensionsPresent(headerType)],
             headerType, VarIntDecode(data, pos))

RECURSIVE validateFetchHeader_loop(_, _, _, _, _)

\* Lines 1442-1455: one turn of the loop, obj being what validateFetchObject gave.
validateFetchHeader_obj(v, data, result, objects, obj) ==
    IF obj.err = "panic" THEN Failed(obj.err, obj.msg, v)
    ELSE IF obj.err # "none"
    THEN IF obj.err = "EOF" \/ Len(objects) > 0
         THEN Done(v, result @@ [object_count |-> Len(objects), objects |-> objects])
         ELSE Failed(obj.err, obj.msg, v)
    ELSE validateFetchHeader_loop(v, data, obj.pos, result, Append(objects, obj.obj))

validateFetchHeader_loop(v, data, pos, result, objects) ==
    validateFetchHeader_obj(v, data, result, objects, validateFetchObject(data, pos))

\* validateFetchHeader refusing a request id that no FETCH of the session has.
validateFetchHeader_requestID_known(v, data, requestID) ==
    IF requestID.err # "none" THEN Raw(requestID.err, v)
    ELSE IF requestID.value \notin DOMAIN v.activeFetches
    THEN Failed("ProtocolViolation", "unknown fetch", v)
    ELSE validateFetchHeader_loop(v, data, requestID.pos,
                                  [header_type |-> "FETCH_HEADER",
                                   request_id |-> requestID.value],
                                  << >>)

validateFetchHeader_requestID(v, data, requestID) ==
    IF requestID.err # "none" THEN Raw(requestID.err, v)
    ELSE validateFetchHeader_loop(v, data, requestID.pos,
                                  [header_type |-> "FETCH_HEADER",
                                   request_id |-> requestID.value],
                                  << >>)

validateFetchHeader(v, data, pos) ==
    validateFetchHeader_requestID(v, data, VarIntDecode(data, pos))

validateDataStream_details(streamType, details) ==
    IF details.err # "none" THEN details
    ELSE Done(details.v, details.result @@ [stream_type |-> streamType])

validateDataStream_streamType(v, data, streamType) ==
    IF streamType.err # "none" THEN Raw(streamType.err, v)
    ELSE IF streamType.value >= 8 /\ streamType.value <= 13
    THEN validateDataStream_details(streamType.value,
             validateSubgroupHeader(v, data, streamType.pos, streamType.value))
    ELSE IF streamType.value = FetchHeader
    THEN validateDataStream_details(streamType.value,
             validateFetchHeader(v, data, streamType.pos))
    ELSE Failed("ProtocolViolation", "unknown stream type", v)

validateDataStream(v, data) ==
    IF Len(data) = 0 THEN Failed("ValidationError", "empty data stream", v)
    ELSE validateDataStream_streamType(v, data, VarIntDecode(data, 0))

ValidateMessage(v, data, isControlStream) ==
    IF Len(data) = 0 THEN Failed("ValidationError", "empty message", v)
    ELSE IF isControlStream THEN validateControlMessage(v, data)
    ELSE validateDataStream(v, data)

(***************************************************************************)
(* Datagrams.                                                              *)
(***************************************************************************)
ValidateDatagram_status(v, result, status) ==
    IF status.err # "none" THEN Raw(status.err, v)
    ELSE IF ~isValidObjectStatus(status.value)
    THEN Failed("ProtocolViolation", "invalid object status", v)
    ELSE Done(v, result @@ [status |-> getObjectStatusName(status.value)])

ValidateDatagram_payload(v, result, payload) ==
    Done(v, result @@ [payload_length |-> Len(payload),
                       payload |-> renderPayload(payload)])

\* Lines 1666-1689: the rest of the datagram is the payload, or one status varint.
datagramBody(v, data, pos, datagramType, result) ==
    IF datagramType = ObjectDatagramNoExt \/ datagramType = ObjectDatagramWithExt
    THEN ValidateDatagram_payload(v, result, ReadAll(data, pos))
    ELSE ValidateDatagram_status(v, result, VarIntDecode(data, pos))

\* Lines 1645-1663: a type with extensions must carry some.
ValidateDatagram_ext(v, data, datagramType, ext) ==
    IF ext.err # "none" THEN Failed(ext.err, ext.msg, v)
    ELSE IF ext.length = 0
    THEN Failed("ProtocolViolation",
                "extension header length is 0 for type with extensions", v)
    ELSE datagramBody(v, data, ext.pos, datagramType, ext.obj)

ValidateDatagram_priorityByte(v, data, result, datagramType, priorityByte) ==
    IF priorityByte.err # "none"
    THEN Failed("ValidationError", "missing publisher priority", v)
    ELSE IF datagramType = ObjectDatagramWithExt \/ datagramType = ObjectStatusWithExt
    THEN ValidateDatagram_ext(v, data, datagramType,
             readExtensions(data, priorityByte.pos,
                            result @@ [publisher_priority |-> priorityByte.bytes[1]]))
    ELSE datagramBody(v, data, priorityByte.pos, datagramType,
                      result @@ [publisher_priority |-> priorityByte.bytes[1]])

ValidateDatagram_objectID(v, data, result, datagramType, objectID) ==
    IF objectID.err # "none" THEN Raw(objectID.err, v)
    ELSE ValidateDatagram_priorityByte(v, data,
             result @@ [object_id |-> objectID.value],
             datagramType, ReadFull(data, objectID.pos, 1))

ValidateDatagram_groupID(v, data, result, datagramType, groupID) ==
    IF groupID.err # "none" THEN Raw(groupID.err, v)
    ELSE ValidateDatagram_objectID(v, data, result @@ [group_id |-> groupID.value],
                                   datagramType, VarIntDecode(data, groupID.pos))

ValidateDatagram_trackAlias(v, data, result, datagramType, trackAlias) ==
    IF trackAlias.err # "none" THEN Raw(trackAlias.err, v)
    ELSE ValidateDatagram_groupID(v, data, result @@ [track_alias |-> trackAlias.value],
                                  datagramType, VarIntDecode(data, trackAlias.pos))

ValidateDatagram_datagramType(v, data, datagramType) ==
    IF datagramType.err # "none" THEN Raw(datagramType.err, v)
    ELSE IF ~isValidDatagramType(datagramType.value)
    THEN Failed("ProtocolViolation", "unknown datagram type", v)
    ELSE ValidateDatagram_trackAlias(v, data,
             [type |-> getDatagramTypeName(datagramType.value),
              type_value |-> datagramType.value],
             datagramType.value, VarIntDecode(data, datagramType.pos))

ValidateDatagram(v, data) ==
    IF Len(data) = 0 THEN Failed("ValidationError", "empty datagram", v)
    ELSE ValidateDatagram_datagramType(v, data, VarIntDecode(data, 0))

(***************************************************************************)
(* The validator and the calls made on it.                                 *)
(***************************************************************************)
VARIABLES
    currentVersion,         \* MoQTValidator.currentVersion
    maxRequestIDClient,     \* MoQTValidator.maxRequestIDClient
    maxRequestIDServer,     \* MoQTValidator.maxRequestIDServer
    activeTracks,           \* track alias -> full track name
    activeSubscriptions,    \* request id -> subscription info
    activeFetches,          \* request id -> fetch info
    authTokens,             \* token alias -> token value
    maxAuthTokenCacheSize,  \* MoQTValidator.maxAuthTokenCacheSize
    currentAuthTokenSize,   \* MoQTValidator.currentAuthTokenSize
    lastKind,               \* the entry point of the last call: control, stream, datagram
    lastData,               \* the buffer of the last call
    lastErr,                \* the kind of error the last call returned, or "none"
    lastMsg,                \* the text of that error
    lastResult              \* the record the last call returned

session == <<currentVersion, maxRequestIDClient, maxRequestIDServer, activeTracks,
             activeSubscriptions, activeFetches, authTokens, maxAuthTokenCacheSize,
             currentAuthTokenSize>>

vars == <<currentVersion, maxRequestIDClient, maxRequestIDServer, activeTracks,
          activeSubscriptions, activeFetches, authTokens, maxAuthTokenCacheSize,
          currentAuthTokenSize, lastKind, lastData, lastErr, lastMsg, lastResult>>

\* The validator as one value.
Validator ==
    [currentVersion |-> currentVersion,
     maxRequestIDClient |-> maxRequestIDClient,
     maxRequestIDServer |-> maxRequestIDServer,
     activeTracks |-> activeTracks,
     activeSubscriptions |-> activeSubscriptions,
     activeFetches |-> activeFetches,
     authTokens |-> authTokens,
     maxAuthTokenCacheSize |-> maxAuthTokenCacheSize,
     currentAuthTokenSize |-> currentAuthTokenSize]

\* The zero value of every field NewMoQTValidator does not set: no maximum request
\* id, no token budget, empty maps.
NewMoQTValidator ==
    [currentVersion |-> InitialVersion,
     maxRequestIDClient |-> 0,
     maxRequestIDServer |-> 0,
     activeTracks |-> << >>,
     activeSubscriptions |-> << >>,
     activeFetches |-> << >>,
     authTokens |-> << >>,
     maxAuthTokenCacheSize |-> 0,
     currentAuthTokenSize |-> 0]

Init ==
    /\ currentVersion = NewMoQTValidator.currentVersion
    /\ maxRequestIDClient = NewMoQTValidator.maxRequestIDClient
    /\ maxRequestIDServer = NewMoQTValidator.maxRequestIDServer
    /\ activeTracks = NewMoQTValidator.activeTracks
    /\ activeSubscriptions = NewMoQTValidator.activeSubscriptions
    /\ activeFetches = NewMoQTValidator.activeFetches
    /\ authTokens = NewMoQTValidator.authTokens
    /\ maxAuthTokenCacheSize = NewMoQTValidator.maxAuthTokenCacheSize
    /\ currentAuthTokenSize = NewMoQTValidator.currentAuthTokenSize
    /\ lastKind = "none"
    /\ lastData = << >>
    /\ lastErr = "none"
    /\ lastMsg = ""
    /\ lastResult = NilResult

\* A call returns: the validator is what the decoder left, the result is recorded.
Return(out, kind, data) ==
    /\ currentVersion' = out.v.currentVersion
    /\ maxRequestIDClient' = out.v.maxRequestIDClient
    /\ maxRequestIDServer' = out.v.maxRequestIDServer
    /\ activeTracks' = out.v.activeTracks
    /\ activeSubscriptions' = out.v.activeSubscriptions
    /\ activeFetches' = out.v.activeFetches
    /\ authTokens' = out.v.authTokens
    /\ maxAuthTokenCacheSize' = out.v.maxAuthTokenCacheSize
    /\ currentAuthTokenSize' = out.v.currentAuthTokenSize
    /\ lastKind' = kind
    /\ lastData' = data
    /\ lastErr' = out.err
    /\ lastMsg' = out.msg
    /\ lastResult' = out.result

(***************************************************************************)
(* The buffers the calls are made with: messages built field by field as a *)
(* peer would encode them, the same with the last byte cut off, and the    *)
(* same with a byte appended.                                              *)
(***************************************************************************)
MaxRid == 2
MaxLoc == 2

Vi(x) == VarIntEncode(x).bytes

\* A varint length and the bytes.
Lp(bs) == Vi(Len(bs)) \o bs

RECURSIVE Concat(_)
Concat(ss) ==
    IF ss = << >> THEN << >>
    ELSE IF Len(ss) = 1 THEN ss[1]
    ELSE Concat(SubSeq(ss, 1, Len(ss) \div 2))
         \o Concat(SubSeq(ss, Len(ss) \div 2 + 1, Len(ss)))

\* A count and that many items, each already encoded.
Counted(items) == Vi(Len(items)) \o Concat(items)

TupleBytes(fields) == Counted([i \in 1..Len(fields) |-> Lp(fields[i])])

Frame(msgType, payload) == Vi(msgType) \o PutBigEndian(Len(payload), 2) \o payload

Front(m) == SubSeq(m, 1, Len(m) - 1)

Truncated(S) == {Front(m) : m \in {x \in S : Len(x) > 0}}

Extended(S) == {Append(m, 0) : m \in S}

NumParam(type, val) == Vi(type) \o Vi(val)
BytesParam(type, bs) == Vi(type) \o Lp(bs)

DeleteToken(alias) == BytesParam(VersionParamAuthorizationToken,
                                 Vi(AliasTypeDelete) \o Vi(alias))
RegisterToken(alias, tokenType, value) ==
    BytesParam(VersionParamAuthorizationToken,
               Vi(AliasTypeRegister) \o Vi(alias) \o Vi(tokenType) \o value)
UseAliasToken(alias) == BytesParam(VersionParamAuthorizationToken,
                                   Vi(AliasTypeUseAlias) \o Vi(alias))
UseValueToken(tokenType, value) ==
    BytesParam(VersionParamAuthorizationToken,
               Vi(AliasTypeUseValue) \o Vi(tokenType) \o value)

NoParams == Counted(<< >>)

\* "li", "c": a one-field namespace and a name.
Ns == << <<108, 105>> >>
Name == <<99>>

Aliases == {10, 11}

\* Version-parameter lists: none, each token operation, a timeout, and lists that
\* fail after a token (a count of two with one parameter, a wrong alias type).
GoodParamLists ==
    {NoParams,
     Counted(<<DeleteToken(3)>>),
     Counted(<<UseValueToken(0, <<1, 2>>)>>),
     Counted(<<NumParam(VersionParamDeliveryTimeout, 7)>>)}

BadParamLists ==
    {Counted(<<RegisterToken(3, 0, <<1, 2, 3, 4>>)>>),
     Counted(<<UseAliasToken(3)>>),
     Vi(2) \o DeleteToken(3),
     Counted(<<BytesParam(VersionParamAuthorizationToken, Vi(4))>>)}

ParamLists == GoodParamLists \cup BadParamLists

SubscribePayload(rid, alias, ns, name, prio, order, fwd, filter, params) ==
    Vi(rid) \o Vi(alias) \o TupleBytes(ns) \o Lp(name) \o <<prio, order, fwd>>
    \o filter \o params

RangeFilter(startGroup, startObject, endGroup) ==
    Vi(AbsoluteRange) \o Vi(startGroup) \o Vi(startObject) \o Vi(endGroup)

\* The SUBSCRIBE of request id rid and track alias alias for groups 1..2.
SubscribeCalls ==
    [rid \in 0..MaxRid, alias \in Aliases |->
        Frame(Subscribe, SubscribePayload(rid, alias, Ns, Name, 128, 1, 1,
                                          RangeFilter(1, 0, 2), NoParams))]

\* The SUBSCRIBE of request id 0 for the groups startGroup..endGroup.
SubscribeRangeCalls ==
    [startGroup \in 0..MaxLoc, endGroup \in 0..MaxLoc |->
        Frame(Subscribe, SubscribePayload(0, 10, Ns, Name, 128, 1, 1,
                                          RangeFilter(startGroup, 0, endGroup),
                                          NoParams))]

\* The SUBSCRIBE of request id 0 with each group order.
SubscribeOrderCalls ==
    [order \in 0..2 |->
        Frame(Subscribe, SubscribePayload(0, 11, Ns, Name, 128, order, 1,
                                          RangeFilter(1, 0, 1), NoParams))]

SubscribeInputs ==
    {SubscribeCalls[rid, alias] : rid \in 0..MaxRid, alias \in Aliases}
    \cup {SubscribeRangeCalls[startGroup, endGroup]
            : startGroup \in 0..MaxLoc, endGroup \in 0..MaxLoc}
    \cup {SubscribeOrderCalls[order] : order \in 0..2}
    \cup {Frame(Subscribe, SubscribePayload(0, 10, Ns, Name, 128, 1, 1,
                                            Vi(LatestObject), params))
        : params \in {NoParams, Counted(<<UseAliasToken(3)>>)}}
    \cup {Frame(Subscribe, SubscribePayload(0, 10, Ns, Name, 128, 3, 1,
                                            Vi(LatestObject), NoParams)),
          Frame(Subscribe, SubscribePayload(0, 10, << >>, Name, 128, 1, 1,
                                            Vi(LatestObject), NoParams)),
          Frame(Subscribe, SubscribePayload(0, 10, Ns, Name, 128, 1, 1,
                                            Vi(5), NoParams))}

SubscribeOKPayload(rid, expires, order, exists, params) ==
    Vi(rid) \o Vi(expires) \o <<order, exists>> \o params

\* The SUBSCRIBE_OK of request id rid.
SubscribeOKCalls ==
    [rid \in 0..MaxRid |->
        Frame(SubscribeOK, SubscribeOKPayload(rid, 0, 1, 0, NoParams))]

SubscribeOKInputs ==
    {SubscribeOKCalls[rid] : rid \in 0..MaxRid}
    \cup {Frame(SubscribeOK, SubscribeOKPayload(0, 0, 0, 0, NoParams)),
          Frame(SubscribeOK, SubscribeOKPayload(0, 0, 2, 1, Vi(1) \o Vi(0) \o NoParams))}

StandaloneFetchPayload(rid, prio, order, ns, name, sg, so, eg, eo, params) ==
    Vi(rid) \o <<prio, order>> \o Vi(1) \o TupleBytes(ns) \o Lp(name)
    \o Vi(sg) \o Vi(so) \o Vi(eg) \o Vi(eo) \o params

JoiningFetchPayload(rid, prio, order, fetchType, subscribeID, start, params) ==
    Vi(rid) \o <<prio, order>> \o Vi(fetchType) \o Vi(subscribeID) \o Vi(start) \o params

\* The standalone FETCH of request id 0 from (1, 1) to (endGroup, endObject).
FetchRangeCalls ==
    [endGroup \in 0..MaxLoc, endObject \in 0..MaxLoc |->
        Frame(Fetch, StandaloneFetchPayload(0, 1, 0, Ns, Name, 1, 1,
                                            endGroup, endObject, NoParams))]

\* The standalone FETCH of request id rid.
FetchCalls ==
    [rid \in 0..MaxRid |->
        Frame(Fetch, StandaloneFetchPayload(rid, 1, 0, Ns, Name, 1, 1, 1, 1, NoParams))]

FetchInputs ==
    {FetchRangeCalls[endGroup, endObject]
        : endGroup \in 0..MaxLoc, endObject \in 0..MaxLoc}
    \cup {FetchCalls[rid] : rid \in 0..MaxRid}
    \cup {Frame(Fetch, StandaloneFetchPayload(0, 1, 0, Ns, Name, 1, 1, 1, 1,
                                              Counted(<<UseAliasToken(3)>>)))}
    \cup {Frame(Fetch, JoiningFetchPayload(0, 1, 0, 2, 0, 1, NoParams)),
          Frame(Fetch, JoiningFetchPayload(0, 1, 0, 4, 0, 1, NoParams))}

\* The ANNOUNCE of request id rid.
AnnounceCalls ==
    [rid \in 0..MaxRid |-> Frame(Announce, Vi(rid) \o TupleBytes(Ns) \o NoParams)]

\* The ANNOUNCE that registers four bytes of token under alias 3.
RegisterCall ==
    Frame(Announce, Vi(0) \o TupleBytes(Ns)
                    \o Counted(<<RegisterToken(3, 0, <<1, 2, 3, 4>>)>>))

AnnounceInputs ==
    {AnnounceCalls[rid] : rid \in 0..MaxRid}
    \cup {Frame(Announce, Vi(0) \o TupleBytes(Ns) \o params) : params \in ParamLists}

\* The TRACK_STATUS_REQUEST of request id rid.
TrackStatusRequestCalls ==
    [rid \in 0..MaxRid |->
        Frame(TrackStatusRequest, Vi(rid) \o TupleBytes(Ns) \o Lp(Name) \o NoParams)]

TrackStatusRequestInputs == {TrackStatusRequestCalls[rid] : rid \in 0..MaxRid}

SetupParams(m, c) ==
    Counted(<<NumParam(SetupParamMaxRequestID, m),
              NumParam(SetupParamMaxAuthTokenCacheSize, c)>>)

\* CLIENT_SETUP and SERVER_SETUP of version 1 carrying MAX_REQUEST_ID = m and
\* MAX_AUTH_TOKEN_CACHE_SIZE = 64.
SetupCalls ==
    [msgType \in {ClientSetup, ServerSetup}, m \in 1..MaxRid |->
        IF msgType = ClientSetup
        THEN Frame(ClientSetup, Counted(<<Vi(1)>>) \o SetupParams(m, 64))
        ELSE Frame(ServerSetup, Vi(1) \o SetupParams(m, 64))]

SetupInputs ==
    {SetupCalls[msgType, m] : msgType \in {ClientSetup, ServerSetup}, m \in 1..MaxRid}
    \cup {Frame(ClientSetup, Counted(<<Vi(1), Vi(2)>>)
                             \o Counted(<<BytesParam(SetupParamPath, <<47>>)>>)),
          Frame(ServerSetup, Vi(2) \o NoParams)}

\* The MAX_REQUEST_ID message carrying m.
MaxRequestIDCalls == [m \in 0..MaxRid |-> Frame(MaxRequestID, Vi(m))]

OtherControlInputs ==
    {MaxRequestIDCalls[m] : m \in 0..MaxRid}
    \cup {Frame(Goaway, Lp(<< >>)), Frame(Goaway, Lp(<<47, 97>>)),
          Frame(Unsubscribe, Vi(0)),
          Frame(63, << >>)}

WholeControlInputs ==
    SubscribeInputs \cup SubscribeOKInputs \cup FetchInputs \cup AnnounceInputs
    \cup TrackStatusRequestInputs \cup SetupInputs \cup OtherControlInputs

\* One message of each type, for the cut and the appended byte.
SampleControlInputs ==
    {Frame(Subscribe, SubscribePayload(0, 10, Ns, Name, 128, 1, 1,
                                       Vi(LatestObject), NoParams)),
     Frame(SubscribeOK, SubscribeOKPayload(0, 0, 1, 0, NoParams)),
     Frame(Fetch, StandaloneFetchPayload(0, 1, 0, Ns, Name, 1, 1, 1, 1, NoParams)),
     Frame(Fetch, JoiningFetchPayload(0, 1, 0, 2, 0, 1, NoParams)),
     Frame(Announce, Vi(0) \o TupleBytes(Ns) \o NoParams),
     Frame(Announce, Vi(0) \o TupleBytes(Ns) \o Counted(<<DeleteToken(3)>>)),
     Frame(TrackStatusRequest, Vi(0) \o TupleBytes(Ns) \o Lp(Name) \o NoParams),
     Frame(ClientSetup, Counted(<<Vi(1)>>) \o SetupParams(1, 64)),
     Frame(ServerSetup, Vi(1) \o SetupParams(1, 64)),
     Frame(MaxRequestID, Vi(1)),
     Frame(Goaway, Lp(<< >>)),
     Frame(Goaway, Lp(<<47, 97>>)),
     Frame(Unsubscribe, Vi(0))}

ControlInputs ==
    WholeControlInputs \cup Truncated(SampleControlInputs)
    \cup Extended(SampleControlInputs) \cup {<< >>}

\* Data streams: a header of each type and objects as (id, payload) pairs, an empty
\* payload standing for "length 0, status st".
PayloadObject(id, payload) == Vi(id) \o Lp(payload)
StatusObject(id, st) == Vi(id) \o Vi(0) \o Vi(st)

SubgroupStream(headerType, alias, group, objects) ==
    Vi(headerType) \o Vi(alias) \o Vi(group)
    \o (IF headerType \in {12, 13} THEN Vi(9) ELSE << >>) \o <<0>> \o Concat(objects)

ObjectLists ==
    {<< >>,
     <<PayloadObject(5, <<97, 98>>)>>,
     <<StatusObject(5, 0)>>,
     <<StatusObject(5, 2)>>,
     <<PayloadObject(5, <<97, 98>>), StatusObject(6, 0), StatusObject(7, 3)>>,
     <<PayloadObject(5, <<97, 98>>), StatusObject(7, 0), StatusObject(6, 3)>>,
     <<PayloadObject(5, <<97, 98>>), StatusObject(6, 2)>>}

FetchObject(group, subgroup, id, payload) ==
    Vi(group) \o Vi(subgroup) \o Vi(id) \o <<0>> \o Vi(0) \o Lp(payload)

WholeStreamInputs ==
    {SubgroupStream(10, 1, 100, objects) : objects \in ObjectLists}
    \cup {SubgroupStream(8, 1, 100, <<PayloadObject(5, <<97, 98>>), StatusObject(6, 0)>>),
          SubgroupStream(12, 1, 100, <<PayloadObject(5, <<97, 98>>), StatusObject(6, 0)>>),
          SubgroupStream(9, 1, 100, <<Vi(5) \o Lp(NumParam(2, 1)) \o Lp(<<97>>)>>),
          Vi(FetchHeader) \o Vi(0),
          Vi(FetchHeader) \o Vi(0) \o FetchObject(1, 0, 0, <<97>>),
          Vi(FetchHeader) \o Vi(0) \o FetchObject(1, 0, 0, <<97>>)
                                   \o FetchObject(1, 0, 1, <<98, 99>>),
          Vi(7) \o Vi(0)}

StreamInputs == WholeStreamInputs \cup Truncated(WholeStreamInputs) \cup {<< >>}

DatagramBytes(datagramType, alias, group, id, rest) ==
    Vi(datagramType) \o Vi(alias) \o Vi(group) \o Vi(id) \o <<0>> \o rest

WholeDatagramInputs ==
    {DatagramBytes(ObjectDatagramNoExt, 1, 2, 3, << >>),
     DatagramBytes(ObjectDatagramNoExt, 1, 2, 3, <<97, 98>>),
     DatagramBytes(ObjectDatagramWithExt, 1, 2, 3, Lp(NumParam(2, 1)) \o <<97>>),
     DatagramBytes(ObjectDatagramWithExt, 1, 2, 3, Lp(<< >>) \o <<97>>),
     DatagramBytes(ObjectStatusNoExt, 1, 2, 3, Vi(0)),
     DatagramBytes(ObjectStatusNoExt, 1, 2, 3, Vi(2)),
     DatagramBytes(ObjectStatusWithExt, 1, 2, 3, Lp(NumParam(2, 1)) \o Vi(3)),
     DatagramBytes(4, 1, 2, 3, << >>)}

DatagramInputs == WholeDatagramInputs \cup Truncated(WholeDatagramInputs) \cup {<< >>}

(***************************************************************************)
(* The entry points.                                                       *)
(***************************************************************************)
ValidateControl ==
    \E data \in ControlInputs :
        Return(ValidateMessage(Validator, data, TRUE), "control", data)

ValidateStream ==
    \E data \in StreamInputs :
        Return(ValidateMessage(Validator, data, FALSE), "stream", data)

ValidateDatagramCall ==
    \E data \in DatagramInputs :
        Return(ValidateDatagram(Validator, data), "datagram", data)

Next == ValidateControl \/ ValidateStream \/ ValidateDatagramCall

Spec == Init /\ [][Next]_vars

(***************************************************************************)
(* Properties of the control plane.                                        *)
(***************************************************************************)
RECURSIVE CacheCost(_, _)
\* The sum, over the aliases, of the overhead and the length of the value.
CacheCost(tokens, aliases) ==
    IF aliases = {} THEN 0
    ELSE TokenOverhead + Len(tokens[CHOOSE a \in aliases : TRUE])
         + CacheCost(tokens, aliases \ {CHOOSE a \in aliases : TRUE})

\* C1: in every reachable state the recorded size of the token cache is the sum
\* of (8 + value length) over the cached tokens, and it is at most the maximum
\* cache size.
C1_TokenCacheSize ==
    /\ currentAuthTokenSize = CacheCost(authTokens, DOMAIN authTokens)
    /\ currentAuthTokenSize <= maxAuthTokenCacheSize

\* A REGISTER of four bytes was decoded and refused for the budget.
C1_RegisterRefused ==
    /\ lastKind = "control"
    /\ lastData = RegisterCall
    /\ lastErr = "ProtocolViolation"
    /\ lastMsg = "auth token cache overflow"

\* C2: a SUBSCRIBE whose track alias is that of a live subscription of another
\* request id fails with a ProtocolViolation, and no two live subscriptions
\* have the same track alias.
C2_TrackAliasUnique ==
    [][/\ \A rid \in 0..MaxRid, alias \in Aliases, r \in DOMAIN activeSubscriptions :
            (/\ lastKind' = "control"
             /\ lastData' = SubscribeCalls[rid, alias]
             /\ r # rid
             /\ activeSubscriptions[r].track_alias = alias)
            => lastErr' = "ProtocolViolation"
       /\ \A r1 \in DOMAIN activeSubscriptions', r2 \in DOMAIN activeSubscriptions' :
            r1 # r2 => activeSubscriptions'[r1].track_alias
                       # activeSubscriptions'[r2].track_alias]_vars

\* Request id 0 holds track alias 10, and the SUBSCRIBE of request id 2 for
\* track alias 10 has been refused.
C2_SecondSubscribeRefused ==
    /\ 0 \in DOMAIN activeSubscriptions
    /\ activeSubscriptions[0].track_alias = 10
    /\ lastKind = "control"
    /\ lastData = SubscribeCalls[2, 10]
    /\ lastErr = "ProtocolViolation"

\* The messages that carry a request id to be checked.
RequestCalls ==
    [msgType \in {Subscribe, SubscribeOK, Fetch, Announce, TrackStatusRequest},
     rid \in 0..MaxRid |->
        CASE msgType = Subscribe -> SubscribeCalls[rid, 10]
          [] msgType = SubscribeOK -> SubscribeOKCalls[rid]
          [] msgType = Fetch -> FetchCalls[rid]
          [] msgType = Announce -> AnnounceCalls[rid]
          [] msgType = TrackStatusRequest -> TrackStatusRequestCalls[rid]]

\* C3: a SUBSCRIBE, SUBSCRIBE_OK, FETCH, ANNOUNCE or TRACK_STATUS_REQUEST whose
\* request id is valid for neither direction (wrong parity or above the
\* maximum for each) fails with a ProtocolViolation and changes no session
\* state.
C3_RequestIDChecked ==
    [][\A msgType \in {Subscribe, SubscribeOK, Fetch, Announce, TrackStatusRequest},
          rid \in 0..MaxRid :
            (/\ lastKind' = "control"
             /\ lastData' = RequestCalls[msgType, rid]
             /\ validateRequestID(Validator, rid, TRUE).err # "none"
             /\ validateRequestID(Validator, rid, FALSE).err # "none")
            => /\ lastErr' = "ProtocolViolation"
               /\ UNCHANGED session]_vars

\* C4: after a CLIENT_SETUP or SERVER_SETUP carrying MAX_REQUEST_ID = m and
\* MAX_AUTH_TOKEN_CACHE_SIZE = 64 decodes, the maximum request id is m and the
\* maximum cache size is 64; the next SUBSCRIBE with an even request id <= m is
\* accepted, and so is the next REGISTER of a token of 8 + 4 <= 64 bytes.
C4_SetupLimitsStored ==
    [][\A msgType \in {ClientSetup, ServerSetup}, m \in 1..MaxRid :
        /\ (/\ lastKind' = "control"
            /\ lastData' = SetupCalls[msgType, m]
            /\ lastErr' = "none")
           => /\ m \in {maxRequestIDClient', maxRequestIDServer'}
              /\ maxAuthTokenCacheSize' = 64
        /\ (/\ lastKind = "control"
            /\ lastData = SetupCalls[msgType, m]
            /\ lastErr = "none"
            /\ lastKind' = "control")
           => /\ \A rid \in 0..m :
                    (rid % 2 = 0 /\ lastData' = SubscribeCalls[rid, 10])
                    => lastErr' = "none"
              /\ lastData' = RegisterCall => lastErr' = "none"]_vars

\* C5: once a MAX_REQUEST_ID has been accepted, one carrying a smaller value
\* fails with a ProtocolViolation, and the stored maximum never decreases.
C5_MaxRequestIDMonotonic ==
    [][/\ \A m1 \in 0..MaxRid, m2 \in 0..MaxRid :
            (/\ lastKind = "control"
             /\ lastData = MaxRequestIDCalls[m1]
             /\ lastErr = "none"
             /\ lastKind' = "control"
             /\ lastData' = MaxRequestIDCalls[m2]
             /\ m2 < m1)
            => lastErr' = "ProtocolViolation"
       /\ maxRequestIDClient' >= maxRequestIDClient
       /\ maxRequestIDServer' >= maxRequestIDServer]_vars

\* The sampled control messages that decode, each a type, a 16-bit length and
\* exactly that many bytes of payload.
WellFormedControl ==
    {m \in SampleControlInputs : validateControlMessage(NewMoQTValidator, m).err = "none"}

\* The data streams and datagrams that decode; neither decoder reads the session.
WellFormedStreams ==
    {m \in WholeStreamInputs : validateDataStream(NewMoQTValidator, m).err = "none"}

WellFormedDatagrams ==
    {m \in WholeDatagramInputs : ValidateDatagram(NewMoQTValidator, m).err = "none"}

C7_FailureKeepsSession ==
    [][(lastKind' = "control" /\ lastErr' # "none")
       => UNCHANGED <<activeSubscriptions, activeFetches, activeTracks,
                      currentVersion, maxRequestIDClient, maxRequestIDServer>>]_vars

\* With a subscription and a fetch live, a SUBSCRIBE has failed in its
\* parameters, after every other field was read.
C7_SubscribeFailedLate ==
    /\ activeSubscriptions # << >>
    /\ activeFetches # << >>
    /\ lastKind = "control"
    /\ lastData = Frame(Subscribe,
                        SubscribePayload(0, 10, Ns, Name, 128, 1, 1, Vi(LatestObject),
                                         Counted(<<UseAliasToken(3)>>)))
    /\ lastErr = "ProtocolViolation"
    /\ lastMsg = "unknown auth token alias"

\* C8: a SUBSCRIBE of request id r that decodes sets the subscription of r to
\* its track alias, full track name and filter type, leaves the other
\* subscriptions and the fetches as they were, and reports group order 1 as
\* "ASCENDING".
C8_SubscribeCommits ==
    [][/\ \A rid \in 0..MaxRid, alias \in Aliases :
            (/\ lastKind' = "control"
             /\ lastData' = SubscribeCalls[rid, alias]
             /\ lastErr' = "none")
            => /\ DOMAIN activeSubscriptions' = DOMAIN activeSubscriptions \cup {rid}
               /\ activeSubscriptions'[rid]
                  = [track_alias |-> alias,
                     full_track_name |-> [Namespace |-> Ns, Name |-> Name],
                     filter_type |-> AbsoluteRange]
               /\ \A r \in DOMAIN activeSubscriptions \ {rid} :
                    activeSubscriptions'[r] = activeSubscriptions[r]
               /\ activeFetches' = activeFetches
               /\ lastResult'.group_order = "ASCENDING"
       /\ \A order \in 0..2 :
            (/\ lastKind' = "control"
             /\ lastData' = SubscribeOrderCalls[order]
             /\ lastErr' = "none")
            => /\ DOMAIN activeSubscriptions' = DOMAIN activeSubscriptions \cup {0}
               /\ activeSubscriptions'[0]
                  = [track_alias |-> 11,
                     full_track_name |-> [Namespace |-> Ns, Name |-> Name],
                     filter_type |-> AbsoluteRange]
               /\ activeFetches' = activeFetches
               /\ (lastResult'.group_order = "ASCENDING") <=> (order = 1)]_vars

\* The SUBSCRIBE of request id 0 for track alias 10 and groups 1..2 has
\* decoded, with a fetch live.
C8_SubscribeAccepted ==
    /\ lastKind = "control"
    /\ lastData = SubscribeCalls[0, 10]
    /\ lastErr = "none"
    /\ 0 \in DOMAIN activeSubscriptions
    /\ activeSubscriptions[0].filter_type = AbsoluteRange
    /\ activeFetches # << >>

\* C9: a SUBSCRIBE with an AbsoluteRange filter whose end group is smaller than
\* its start group fails with a ValidationError and leaves the subscriptions as
\* they were; one whose end group is the start group or greater passes.
C9_SubscribeRange ==
    [][\A startGroup \in 0..MaxLoc, endGroup \in 0..MaxLoc :
        (lastKind' = "control" /\ lastData' = SubscribeRangeCalls[startGroup, endGroup])
        => IF endGroup < startGroup
           THEN /\ lastErr' = "ValidationError"
                /\ lastMsg' = "end group must be >= start group"
                /\ activeSubscriptions' = activeSubscriptions
           ELSE /\ lastErr' = "none"
                /\ lastResult'.end_group = endGroup]_vars

\* With a subscription live, the SUBSCRIBE for groups 2..1 has been refused.
C9_InvertedRangeRefused ==
    /\ activeSubscriptions # << >>
    /\ lastKind = "control"
    /\ lastData = SubscribeRangeCalls[2, 1]
    /\ lastErr = "ValidationError"

\* C10: a standalone FETCH from (1, 1) fails exactly when its end is before
\* (1, 1) in the order of locations (group first, then object); an end equal
\* to the start is accepted; a failure leaves the fetches as they were, and a
\* success sets the fetch of its request id.
C10_FetchRange ==
    [][\A endGroup \in 0..MaxLoc, endObject \in 0..MaxLoc :
        (lastKind' = "control" /\ lastData' = FetchRangeCalls[endGroup, endObject])
        => IF endGroup < 1 \/ (endGroup = 1 /\ endObject < 1)
           THEN /\ lastErr' = "ValidationError"
                /\ activeFetches' = activeFetches
           ELSE /\ lastErr' = "none"
                /\ 0 \in DOMAIN activeFetches'
                /\ activeFetches'[0].request_id = 0
                /\ activeFetches'[0].end = [group |-> endGroup, object |-> endObject]
                /\ \A k \in DOMAIN activeFetches'[0] :
                        activeFetches'[0][k] = lastResult'[k]]_vars

\* The FETCH from (1, 1) to (1, 0) has been refused with the fetch from (1, 1)
\* to (1, 1) live.
C10_InvertedFetchRefused ==
    /\ lastKind = "control"
    /\ lastData = FetchRangeCalls[1, 0]
    /\ lastErr = "ValidationError"
    /\ 0 \in DOMAIN activeFetches
    /\ "end" \in DOMAIN activeFetches[0]
    /\ activeFetches[0].end = [group |-> 1, object |-> 1]

(***************************************************************************)
(* One run of the command-line tool: main reads a buffer, makes a new      *)
(* validator and decodes the buffer once.  The decoders of the data plane  *)
(* read the validator and never write it, so one call per run shows all    *)
(* they do.                                                                *)
(***************************************************************************)
Loaded(inputs) ==
    /\ currentVersion = NewMoQTValidator.currentVersion
    /\ maxRequestIDClient = NewMoQTValidator.maxRequestIDClient
    /\ maxRequestIDServer = NewMoQTValidator.maxRequestIDServer
    /\ activeTracks = NewMoQTValidator.activeTracks
    /\ activeSubscriptions = NewMoQTValidator.activeSubscriptions
    /\ activeFetches = NewMoQTValidator.activeFetches
    /\ authTokens = NewMoQTValidator.authTokens
    /\ maxAuthTokenCacheSize = NewMoQTValidator.maxAuthTokenCacheSize
    /\ currentAuthTokenSize = NewMoQTValidator.currentAuthTokenSize
    /\ lastKind = "input"
    /\ lastData \in inputs
    /\ lastErr = "none"
    /\ lastMsg = ""
    /\ lastResult = NilResult

MaxObjects == 3
ObjectIDs == 5..7

\* What follows the object id (and the extension length) of an object: a payload
\* of two bytes, the status NORMAL, or the status 2, which is no status.
PayloadBody == Lp(<<97, 98>>)
StatusBody(st) == Vi(0) \o Vi(st)
GoodBodies == {PayloadBody, StatusBody(0)}
BadBodies == {StatusBody(2)}
Bodies == GoodBodies \cup BadBodies

\* An object of a subgroup stream, with no extension headers where the header type
\* has them.
SubgroupObject(headerType, id, body) ==
    Vi(id) \o (IF extensionsPresent(headerType) THEN Vi(0) ELSE << >>) \o body

\* The objects of the given ids and bodies on a stream of the given header type.
SubgroupOf(headerType, ids, bodies) ==
    SubgroupStream(headerType, 1, 100,
                   [i \in 1..Len(ids) |-> SubgroupObject(headerType, ids[i], bodies[i])])

FetchObjectOf(id, body) == Vi(1) \o Vi(0) \o Vi(id) \o <<0>> \o Vi(0) \o body

FetchOf(ids, bodies) ==
    Vi(FetchHeader) \o Vi(0)
    \o Concat([i \in 1..Len(ids) |-> FetchObjectOf(ids[i], bodies[i])])

Lists(S) == UNION {[1..n -> S] : n \in 0..MaxObjects}

Strict(ids) == \A i \in 1..(Len(ids) - 1) : ids[i] < ids[i + 1]

Prefixes(S) == UNION {{SubSeq(m, 1, k) : k \in 0..Len(m)} : m \in S}

\* Every list of objects, on every header type.
SubgroupStreams ==
    UNION {{SubgroupOf(headerType, ids, bodies) :
                bodies \in {b \in Lists(Bodies) : Len(b) = Len(ids)}} :
           headerType \in 8..13, ids \in Lists(ObjectIDs)}

\* The streams whose objects all decode and have an id that is not above the one
\* before it.
DescendingStreams ==
    UNION {{SubgroupOf(headerType, ids, bodies) :
                bodies \in {b \in Lists(GoodBodies) : Len(b) = Len(ids)}} :
           headerType \in 8..13, ids \in {l \in Lists(ObjectIDs) : ~Strict(l)}}

\* The streams of ascending ids, cut at every byte.
CutSubgroupStreams ==
    Prefixes(UNION {{SubgroupOf(headerType, ids, bodies) :
                         bodies \in {b \in Lists(Bodies) : Len(b) = Len(ids)}} :
                    headerType \in 8..13, ids \in {l \in Lists(ObjectIDs) : Strict(l)}})

FetchStreams ==
    UNION {{FetchOf(ids, bodies) : bodies \in {b \in Lists(Bodies) : Len(b) = Len(ids)}} :
           ids \in {l \in Lists(ObjectIDs) : Strict(l)}}

WideStreamInputs ==
    SubgroupStreams \cup CutSubgroupStreams \cup FetchStreams \cup Prefixes(FetchStreams)

\* main with -type stream: lines 1898-1903.
DecodeStream ==
    /\ lastKind = "input"
    /\ Return(validateDataStream(Validator, lastData), "stream", lastData)

StreamSpec == Loaded(WideStreamInputs) /\ [][DecodeStream]_vars

(***************************************************************************)
(* Properties of the data plane.                                           *)
(***************************************************************************)
\* C11: a subgroup stream (header types 8 to 13) in which some decoded object has
\* an id that is not above the id of the object before it fails with a protocol
\* violation, and the objects in the record of every subgroup stream that decodes
\* have strictly ascending ids.
C11_ObjectIDsAscend ==
    /\ (lastKind = "stream" /\ lastData \in DescendingStreams)
       => (lastErr = "ProtocolViolation" /\ lastMsg = "object IDs must be ascending")
    /\ (lastKind = "stream" /\ lastErr = "none"
        /\ lastResult.header_type = "SUBGROUP_HEADER")
       => Strict([i \in 1..Len(lastResult.objects) |-> lastResult.objects[i].object_id])

\* The stream of the objects 5, 7, 6 has been refused.
C11_DescentRefused ==
    /\ lastKind = "stream"
    /\ lastData = SubgroupOf(10, <<5, 7, 6>>, <<PayloadBody, PayloadBody, PayloadBody>>)
    /\ lastErr = "ProtocolViolation"
    /\ lastMsg = "object IDs must be ascending"

(***************************************************************************)
(* VarInt on its own: a value is encoded and the bytes are decoded.  The   *)
(* values are those below 2^31, the integers of the model checker; they    *)
(* take in the four lengths, the 8-byte form being that of the values from *)
(* 2^30.                                                                   *)
(***************************************************************************)
VarIntWindow == 20

\* The values next to x.
Around(x) == (x - VarIntWindow)..(x + VarIntWindow)

VarIntValues ==
    (0..VarIntWindow) \cup Around(64) \cup Around(256) \cup Around(16384)
    \cup Around(65536) \cup Around(16777216) \cup Around(1073741824)
    \cup {2147483647 - k : k \in 0..VarIntWindow}

VarIntInit ==
    /\ currentVersion = NewMoQTValidator.currentVersion
    /\ maxRequestIDClient = NewMoQTValidator.maxRequestIDClient
    /\ maxRequestIDServer = NewMoQTValidator.maxRequestIDServer
    /\ activeTracks = NewMoQTValidator.activeTracks
    /\ activeSubscriptions = NewMoQTValidator.activeSubscriptions
    /\ activeFetches = NewMoQTValidator.activeFetches
    /\ authTokens = NewMoQTValidator.authTokens
    /\ maxAuthTokenCacheSize = NewMoQTValidator.maxAuthTokenCacheSize
    /\ currentAuthTokenSize = NewMoQTValidator.currentAuthTokenSize
    /\ lastKind = "input"
    /\ lastData = << >>
    /\ lastErr = "none"
    /\ lastMsg = ""
    /\ lastResult \in {[value |-> value] : value \in VarIntValues}

\* Encode, then Decode on a reader over the bytes: the buffer, the decoded value
\* and the count Decode returns are kept.
VarIntRoundTrip ==
    /\ lastKind = "input"
    /\ lastKind' = "varint"
    /\ lastData' = VarIntEncode(lastResult.value).bytes
    /\ lastErr' = IF VarIntEncode(lastResult.value).err # "none"
                  THEN VarIntEncode(lastResult.value).err
                  ELSE VarIntDecode(lastData', 0).err
    /\ lastMsg' = ""
    /\ lastResult' = [value |-> lastResult.value,
                      decoded |-> VarIntDecode(lastData', 0).value,
                      n |-> VarIntDecode(lastData', 0).n]
    /\ UNCHANGED session

VarIntSpec == VarIntInit /\ [][VarIntRoundTrip]_vars

\* The length the value's range calls for.
VarIntLength(value) ==
    IF value < 64 THEN 1
    ELSE IF value < 16384 THEN 2
    ELSE IF value < 1073741824 THEN 4
    ELSE 8

\* C12: for every value below 2^31, decoding the encoding of the value gives the
\* value back and a count equal to the length of the encoding, which is 1, 2, 4
\* or 8 bytes by the range of the value and is announced by the top two bits of
\* the first byte.
C12_VarIntRoundTrip ==
    lastKind = "varint"
    => /\ lastErr = "none"
       /\ lastResult.decoded = lastResult.value
       /\ lastResult.n = Len(lastData)
       /\ Len(lastData) = VarIntLength(lastResult.value)
       /\ Pow2(lastData[1] \div 64) = Len(lastData)

\* A value of the 8-byte form, 2^30, has made the round trip.
C12_EightByteRoundTrip ==
    /\ lastKind = "varint"
    /\ lastResult.value = 1073741824
    /\ lastResult.decoded = 1073741824
    /\ lastResult.n = 8
    /\ lastData = <<192, 0, 0, 0, 64, 0, 0, 0>>

(***************************************************************************)
(* Properties of the setup exchange.                                       *)
(***************************************************************************)
\* The SERVER_SETUP that selects version 2.
ServerSetupOfVersion2 == Frame(ServerSetup, Vi(2) \o NoParams)

\* C13: a SERVER_SETUP whose selected version is not among the versions of the
\* CLIENT_SETUP decoded before it is rejected: after a CLIENT_SETUP that lists
\* version 1 alone, the SERVER_SETUP selecting version 2 returns an error.
C13_VersionAgreement ==
    [][\A m \in 1..MaxRid :
        (/\ lastKind = "control"
         /\ lastData = SetupCalls[ClientSetup, m]
         /\ lastErr = "none"
         /\ lastKind' = "control"
         /\ lastData' = ServerSetupOfVersion2)
        => lastErr' # "none"]_vars

(***************************************************************************)
(* The token cache of a validator that has a budget.  No decoder writes    *)
(* maxAuthTokenCacheSize, so a validator made by NewMoQTValidator keeps    *)
(* the budget 0 and an empty cache; here the field is given a value at the *)
(* start, as a test in the package would set it, and every later state is  *)
(* the work of the decoders.  Each call is an ANNOUNCE of request id 0     *)
(* that carries one AUTHORIZATION_TOKEN parameter.                         *)
(***************************************************************************)
MaxTokenLen == 4
TokenAliases == {3, 4}
TokenLengths == {1, MaxTokenLen}
TokenBudgets == {0, 12, 20, 21, 24}

TokenValue(n) == [i \in 1..n |-> i]

AnnounceOf(param) == Frame(Announce, Vi(0) \o TupleBytes(Ns) \o Counted(<<param>>))

RegisterCalls ==
    [alias \in TokenAliases, n \in TokenLengths |->
        AnnounceOf(RegisterToken(alias, 0, TokenValue(n)))]

DeleteCalls == [alias \in TokenAliases |-> AnnounceOf(DeleteToken(alias))]

UseAliasCalls == [alias \in TokenAliases |-> AnnounceOf(UseAliasToken(alias))]

UseValueCalls == [n \in TokenLengths |-> AnnounceOf(UseValueToken(0, TokenValue(n)))]

TokenInputs ==
    {RegisterCalls[alias, n] : alias \in TokenAliases, n \in TokenLengths}
    \cup {DeleteCalls[alias] : alias \in TokenAliases}
    \cup {UseAliasCalls[alias] : alias \in TokenAliases}
    \cup {UseValueCalls[n] : n \in TokenLengths}

TokenInit ==
    /\ currentVersion = NewMoQTValidator.currentVersion
    /\ maxRequestIDClient = NewMoQTValidator.maxRequestIDClient
    /\ maxRequestIDServer = NewMoQTValidator.maxRequestIDServer
    /\ activeTracks = NewMoQTValidator.activeTracks
    /\ activeSubscriptions = NewMoQTValidator.activeSubscriptions
    /\ activeFetches = NewMoQTValidator.activeFetches
    /\ authTokens = NewMoQTValidator.authTokens
    /\ maxAuthTokenCacheSize \in TokenBudgets
    /\ currentAuthTokenSize = NewMoQTValidator.currentAuthTokenSize
    /\ lastKind = "none"
    /\ lastData = << >>
    /\ lastErr = "none"
    /\ lastMsg = ""
    /\ lastResult = NilResult

ValidateToken ==
    \E data \in TokenInputs :
        Return(ValidateMessage(Validator, data, TRUE), "control", data)

TokenSpec == TokenInit /\ [][ValidateToken]_vars

(***************************************************************************)
(* Properties of the token cache.                                          *)
(***************************************************************************)
\* C14: USE_ALIAS of an alias succeeds when the alias is in the cache and fails
\* with the protocol violation "unknown auth token alias" when it is not, every
\* USE_VALUE succeeds, and none of them changes the cache or its size.
C14_UseKeepsCache ==
    [][/\ \A alias \in TokenAliases :
            (lastKind' = "control" /\ lastData' = UseAliasCalls[alias])
            => /\ IF alias \in DOMAIN authTokens
                  THEN lastErr' = "none"
                  ELSE /\ lastErr' = "ProtocolViolation"
                       /\ lastMsg' = "unknown auth token alias"
               /\ authTokens' = authTokens
               /\ currentAuthTokenSize' = currentAuthTokenSize
       /\ \A n \in TokenLengths :
            (lastKind' = "control" /\ lastData' = UseValueCalls[n])
            => /\ lastErr' = "none"
               /\ authTokens' = authTokens
               /\ currentAuthTokenSize' = currentAuthTokenSize]_vars

\* USE_ALIAS of alias 3 has succeeded with alias 3 in the cache.
C14_KnownAliasUsed ==
    /\ lastKind = "control"
    /\ lastData = UseAliasCalls[3]
    /\ lastErr = "none"
    /\ 3 \in DOMAIN authTokens
    /\ currentAuthTokenSize = TokenOverhead + Len(authTokens[3])

C20_DeleteIdempotent ==
    [][\A alias \in TokenAliases :
        (lastKind' = "control" /\ lastData' = DeleteCalls[alias])
        => /\ lastErr' = "none"
           /\ IF alias \in DOMAIN authTokens
              THEN /\ authTokens' = Without(authTokens, alias)
                   /\ currentAuthTokenSize'
                      = currentAuthTokenSize - (TokenOverhead + Len(authTokens[alias]))
              ELSE /\ authTokens' = authTokens
                   /\ currentAuthTokenSize' = currentAuthTokenSize
           /\ (lastKind = "control" /\ lastData = DeleteCalls[alias])
              => session' = session]_vars

\* DELETE of alias 3 has returned with alias 4 still cached and the size that of
\* alias 4 alone, in a validator whose budget holds both.
C20_DeletedOneOfTwo ==
    /\ lastKind = "control"
    /\ lastData = DeleteCalls[3]
    /\ lastErr = "none"
    /\ DOMAIN authTokens = {4}
    /\ currentAuthTokenSize = TokenOverhead + Len(authTokens[4])
    /\ maxAuthTokenCacheSize >= 2 * TokenOverhead + 2

(***************************************************************************)
(* Control messages followed by bytes that are not theirs.                 *)
(***************************************************************************)
MaxExtra == 2

\* Up to MaxExtra bytes, 0 and 255 in turn, starting with either.
Suffixes ==
    {[i \in 1..k |-> IF i % 2 = first THEN 255 ELSE 0] : k \in 0..MaxExtra, first \in 0..1}

FramedInputs == {m \o suffix : m \in SampleControlInputs, suffix \in Suffixes}

ValidateFramed ==
    \E data \in FramedInputs :
        Return(ValidateMessage(Validator, data, TRUE), "control", data)

FramingSpec == Init /\ [][ValidateFramed]_vars

\* The fields of a validator in the order of session.
SessionOf(v) ==
    <<v.currentVersion, v.maxRequestIDClient, v.maxRequestIDServer, v.activeTracks,
      v.activeSubscriptions, v.activeFetches, v.authTokens, v.maxAuthTokenCacheSize,
      v.currentAuthTokenSize>>

\* C15: when a control message decodes to a record and a session state, the
\* message followed by up to MaxExtra more bytes decodes, from the same state,
\* to the same record and the same session state.
C15_TrailingBytesIgnored ==
    [][\A m \in SampleControlInputs, suffix \in Suffixes :
        (/\ lastKind' = "control"
         /\ lastData' = m \o suffix
         /\ ValidateMessage(Validator, m, TRUE).err = "none")
        => /\ lastErr' = "none"
           /\ lastResult' = ValidateMessage(Validator, m, TRUE).result
           /\ session' = SessionOf(ValidateMessage(Validator, m, TRUE).v)]_vars

\* The SUBSCRIBE of request id 0 followed by the bytes 255, 0 has been accepted
\* and its subscription stored.
C15_SubscribeWithTail ==
    /\ lastKind = "control"
    /\ lastData = Frame(Subscribe, SubscribePayload(0, 10, Ns, Name, 128, 1, 1,
                                                   Vi(LatestObject), NoParams))
                  \o <<255, 0>>
    /\ lastErr = "none"
    /\ lastResult.length + 5 = Len(lastData)
    /\ 0 \in DOMAIN activeSubscriptions

(***************************************************************************)
(* The C++ validator: validate_control_message and the parsers it calls.   *)
(* A std::string is the sequence of its bytes.  A call either returns a    *)
(* value or leaves by an exception; threw is the class of the exception    *)
(* ("none" on a return) and what its message.                              *)
(***************************************************************************)
CLIENT_SETUP == 1
SERVER_SETUP == 2
SUBSCRIBE == 3

\* The characters of codes 32 to 126, in order; the places of the double quote,
\* the backslash and the backquote, which no literal below holds, are empty.
PrintableAscii ==
    <<" ", "!", "", "#", "$", "%", "&", "'", "(", ")", "*", "+", ",", "-", ".",
      "/", "0", "1", "2", "3", "4", "5", "6", "7", "8", "9", ":", ";", "<", "=",
      ">", "?", "@", "A", "B", "C", "D", "E", "F", "G", "H", "I", "J", "K", "L",
      "M", "N", "O", "P", "Q", "R", "S", "T", "U", "V", "W", "X", "Y", "Z", "[",
      "", "]", "^", "_", "", "a", "b", "c", "d", "e", "f", "g", "h", "i", "j",
      "k", "l", "m", "n", "o", "p", "q", "r", "s", "t", "u", "v", "w", "x", "y",
      "z", "{", "|", "}", "~">>

\* The bytes of a string literal.
Ascii(str) ==
    [i \in 1..Len(str) |->
        31 + CHOOSE k \in 1..Len(PrintableAscii) : PrintableAscii[k] = SubSeq(str, i, i)]

\* operator<< of an unsigned integer, and std::to_string: the decimal digits.
Decimal(n) == Ascii(ToString(n))

\* The classes a handler for const std::exception& catches.
StdExceptions == {"out_of_range", "runtime_error"}

Throw(class, what, offset) ==
    [threw |-> class, what |-> Ascii(what), value |-> 0, str |-> << >>, offset |-> offset]

\* read_varint (part_001, lines 73-84); offset counts the bytes already read.
read_varint(data, offset) ==
    IF offset >= Len(data) THEN Throw("out_of_range", "Unexpected end of buffer", offset)
    ELSE IF data[offset + 1] \div 128 = 0
    THEN [threw |-> "none", what |-> << >>, value |-> data[offset + 1], str |-> << >>,
          offset |-> offset + 1]
    ELSE IF data[offset + 1] \div 64 = 2
    THEN IF offset + 1 >= Len(data)
         THEN Throw("out_of_range", "Incomplete varint", offset)
         ELSE [threw |-> "none", what |-> << >>,
               value |-> (data[offset + 1] % 64) * 256 + data[offset + 2],
               str |-> << >>, offset |-> offset + 2]
    ELSE Throw("runtime_error", "Unsupported varint format", offset)

\* read_lp_string (part_001, lines 86-92) once the length is read.
read_lp_string_len(data, len) ==
    IF len.threw # "none" THEN len
    ELSE IF len.offset + len.value > Len(data)
    THEN Throw("out_of_range", "String length exceeds buffer", len.offset)
    ELSE [threw |-> "none", what |-> << >>, value |-> len.value,
          str |-> SubSeq(data, len.offset + 1, len.offset + len.value),
          offset |-> len.offset + len.value]

read_lp_string(data, offset) == read_lp_string_len(data, read_varint(data, offset))

\* A function returns the string.
Returned(str) == [threw |-> "none", str |-> str]

\* The handler of a parser with only the runtime_error class caught.
Catch_runtimeErrorOnly(name, e) ==
    IF e.threw = "runtime_error"
    THEN Returned(Ascii(name) \o Ascii(" parse error: ") \o e.what)
    ELSE [threw |-> e.threw, str |-> << >>]

\* catch (const std::exception& e) of a parser: the name, " parse error: " and
\* e.what(); an exception of another class leaves the parser.
Catch(name, e) ==
    IF e.threw \in StdExceptions
    THEN Returned(Ascii(name) \o Ascii(" parse error: ") \o e.what)
    ELSE [threw |-> e.threw, str |-> << >>]

parse_subscribe_track_alias(request_id, track_alias) ==
    IF track_alias.threw # "none" THEN Catch("SUBSCRIBE", track_alias)
    ELSE Returned(Ascii("SUBSCRIBE: request_id=") \o Decimal(request_id.value)
                  \o Ascii(", track_alias=") \o Decimal(track_alias.value))

parse_subscribe_request_id(payload, request_id) ==
    IF request_id.threw # "none" THEN Catch("SUBSCRIBE", request_id)
    ELSE parse_subscribe_track_alias(request_id, read_varint(payload, request_id.offset))

\* parse_subscribe (part_001, lines 11-22).
parse_subscribe(payload) == parse_subscribe_request_id(payload, read_varint(payload, 0))

RECURSIVE parse_params(_, _, _, _)

parse_params_value(name, payload, report, param_type, param_value) ==
    IF param_value.threw # "none" THEN Catch(name, param_value)
    ELSE parse_params(name, payload, param_value.offset,
                      report \o Ascii(" [") \o Decimal(param_type.value) \o Ascii(":")
                      \o param_value.str \o Ascii("]"))

parse_params_type(name, payload, report, param_type) ==
    IF param_type.threw # "none" THEN Catch(name, param_type)
    ELSE parse_params_value(name, payload, report, param_type,
                            read_lp_string(payload, param_type.offset))

\* The loop over the parameters of both setup parsers (part_001, lines 35-39 and
\* 52-56).
parse_params(name, payload, offset, report) ==
    IF offset >= Len(payload) THEN Returned(report)
    ELSE parse_params_type(name, payload, report, read_varint(payload, offset))

RECURSIVE parse_client_setup_versions(_, _, _, _, _)

parse_client_setup_version(payload, report, i, version_count, version) ==
    IF version.threw # "none" THEN Catch("CLIENT_SETUP", version)
    ELSE parse_client_setup_versions(payload, version.offset,
                                     report \o Ascii(" v") \o Decimal(version.value),
                                     i + 1, version_count)

\* The loop over the versions (part_001, lines 30-34).
parse_client_setup_versions(payload, offset, report, i, version_count) ==
    IF i >= version_count
    THEN parse_params("CLIENT_SETUP", payload, offset, report \o Ascii("; Params="))
    ELSE parse_client_setup_version(payload, report, i, version_count,
                                    read_varint(payload, offset))

parse_client_setup_version_count(payload, version_count) ==
    IF version_count.threw # "none" THEN Catch("CLIENT_SETUP", version_count)
    ELSE parse_client_setup_versions(payload, version_count.offset,
             Ascii("CLIENT_SETUP: versions=") \o Decimal(version_count.value),
             0, version_count.value)

\* parse_client_setup (part_001, lines 24-44).
parse_client_setup(payload) ==
    parse_client_setup_version_count(payload, read_varint(payload, 0))

parse_server_setup_version(payload, version) ==
    IF version.threw # "none" THEN Catch("SERVER_SETUP", version)
    ELSE parse_params("SERVER_SETUP", payload, version.offset,
                      Ascii("SERVER_SETUP: version=") \o Decimal(version.value)
                      \o Ascii("; Params="))

\* parse_server_setup (part_001, lines 46-61).
parse_server_setup(payload) == parse_server_setup_version(payload, read_varint(payload, 0))

\* validate_control_message (validator.cpp, lines 9-24).
validate_control_message(data) ==
    IF Len(data) = 0 THEN Returned(Ascii("Empty control message"))
    ELSE IF data[1] = CLIENT_SETUP THEN parse_client_setup(Tail(data))
    ELSE IF data[1] = SERVER_SETUP THEN parse_server_setup(Tail(data))
    ELSE IF data[1] = SUBSCRIBE THEN parse_subscribe(Tail(data))
    ELSE Returned(Ascii("Unsupported or unimplemented message type: 0x")
                  \o Decimal(data[1]))

MaxCppLen == 3

\* The three message types, another type, a printable byte, and a first byte of
\* each form read_varint knows: one byte, two bytes, unsupported.
CppBytes == {0, 1, 2, 3, 4, 65, 128, 192}

CppInputs == UNION {[1..n -> CppBytes] : n \in 0..MaxCppLen}

\* One call of validate_control_message on the buffer: the class of an exception
\* that leaves it, or the string it returns.
ValidateControlMessageCpp ==
    /\ lastKind = "input"
    /\ lastKind' = "cpp"
    /\ lastData' = lastData
    /\ lastErr' = validate_control_message(lastData).threw
    /\ lastMsg' = ""
    /\ lastResult' = [str |-> validate_control_message(lastData).str]
    /\ UNCHANGED session

CppSpec == Loaded(CppInputs) /\ [][ValidateControlMessageCpp]_vars

\* t occurs in s.
Contains(s, t) == \E i \in 1..(Len(s) - Len(t) + 1) : SubSeq(s, i, i + Len(t) - 1) = t

StartsWith(s, t) == Len(s) >= Len(t) /\ SubSeq(s, 1, Len(t)) = t

\* The name of the message a first byte stands for.
CppTypeName(type) ==
    IF type = CLIENT_SETUP THEN "CLIENT_SETUP"
    ELSE IF type = SERVER_SETUP THEN "SERVER_SETUP"
    ELSE "SUBSCRIBE"

\* C16: validate_control_message returns a string for every buffer and no
\* exception leaves it; the empty buffer gives "Empty control message"; a buffer
\* whose first byte is 1, 2 or 3 gives a string that contains CLIENT_SETUP,
\* SERVER_SETUP or SUBSCRIBE, being either the report that starts with the name
\* and a colon or the name followed by " parse error: ".
C16_CppValidatorTotal ==
    lastKind = "cpp"
    => /\ lastErr = "none"
       /\ Len(lastData) = 0 => lastResult.str = Ascii("Empty control message")
       /\ (Len(lastData) > 0 /\ lastData[1] \in {CLIENT_SETUP, SERVER_SETUP, SUBSCRIBE})
          => /\ Contains(lastResult.str, Ascii(CppTypeName(lastData[1])))
             /\ \/ StartsWith(lastResult.str, Ascii(CppTypeName(lastData[1])) \o Ascii(": "))
                \/ StartsWith(lastResult.str,
                              Ascii(CppTypeName(lastData[1])) \o Ascii(" parse error: "))

\* A SUBSCRIBE whose payload ends inside a two-byte varint has been answered with
\* the parse error of read_varint.
C16_SubscribeParseError ==
    /\ lastKind = "cpp"
    /\ lastData = <<3, 128>>
    /\ lastErr = "none"
    /\ lastResult.str = Ascii("SUBSCRIBE parse error: Incomplete varint")

(***************************************************************************)
(* Properties of the end of a data stream.                                 *)
(***************************************************************************)
StreamTypes == {FetchHeader} \cup 8..13

\* The stream of the given type that carries the first j of the objects.
StreamUpTo(streamType, ids, bodies, j) ==
    IF streamType = FetchHeader
    THEN FetchOf(SubSeq(ids, 1, j), SubSeq(bodies, 1, j))
    ELSE SubgroupOf(streamType, SubSeq(ids, 1, j), SubSeq(bodies, 1, j))

\* The lists of one object or more, ids ascending, each object valid.
ValidObjectLists ==
    UNION {{[ids |-> ids, bodies |-> bodies] :
                bodies \in {b \in Lists(GoodBodies) : Len(b) = Len(ids)}} :
           ids \in {l \in Lists(ObjectIDs) : Strict(l) /\ Len(l) > 0}}

\* The buffers that end after the first byte and before the last byte of
\* object j + 1 of a stream, with the number j of the objects before it.
CutInObject ==
    UNION {UNION {{[data |-> SubSeq(StreamUpTo(streamType, l.ids, l.bodies, j + 1), 1, k),
                    whole |-> StreamUpTo(streamType, l.ids, l.bodies, j),
                    complete |-> j] :
                       k \in (Len(StreamUpTo(streamType, l.ids, l.bodies, j)) + 1)
                             ..(Len(StreamUpTo(streamType, l.ids, l.bodies, j + 1)) - 1)} :
                  j \in 0..(Len(l.ids) - 1)} :
           streamType \in StreamTypes, l \in ValidObjectLists}

\* C17: a subgroup or fetch stream that ends inside its first object fails, and
\* one that ends inside a later object decodes to the record of the stream of
\* the objects before it.
C17_EndOfStreamRule ==
    \A cut \in CutInObject :
        (lastKind = "stream" /\ lastData = cut.data)
        => IF cut.complete = 0
           THEN lastErr # "none"
           ELSE /\ lastErr = "none"
                /\ lastResult.object_count = cut.complete
                /\ lastResult = validateDataStream(NewMoQTValidator, cut.whole).result

\* C18: a subgroup or fetch stream with an object, first or later, of payload
\* length 0 and a status outside {0, 1, 3, 4} fails with a protocol violation.
C18_InvalidObjectRejected ==
    \A streamType \in StreamTypes, ids \in {l \in Lists(ObjectIDs) : Strict(l)} :
        \A bodies \in {b \in Lists(Bodies) : Len(b) = Len(ids)} :
            (/\ lastKind = "stream"
             /\ lastData = StreamUpTo(streamType, ids, bodies, Len(ids))
             /\ \E i \in 1..Len(bodies) : bodies[i] \in BadBodies)
            => lastErr = "ProtocolViolation"

(***************************************************************************)
(* Parameter lists of several parameters, on a validator that has a budget *)
(* (see TokenInit): a SUBSCRIBE or a standalone FETCH of request id 0      *)
(* whose list starts with a token operation on alias 3 and goes on with    *)
(* nothing, with a token of alias type 4, or with a parameter that is      *)
(* announced by the count and is not there.                                *)
(***************************************************************************)
ListOps == {"register", "delete"}
ListTails == {"none", "badToken", "missing"}

BadToken == BytesParam(VersionParamAuthorizationToken, Vi(4))
EmptyToken == BytesParam(VersionParamAuthorizationToken, << >>)

ListParams(op, tail) ==
    (IF tail = "none" THEN Vi(1) ELSE Vi(2))
    \o (IF op = "register"
        THEN RegisterToken(3, 0, TokenValue(MaxTokenLen))
        ELSE DeleteToken(3))
    \o (IF tail = "badToken" THEN BadToken ELSE << >>)

ListCalls ==
    [msgType \in {Subscribe, Fetch}, op \in ListOps, tail \in ListTails |->
        IF msgType = Subscribe
        THEN Frame(Subscribe, SubscribePayload(0, 10, Ns, Name, 128, 1, 1,
                                               Vi(LatestObject), ListParams(op, tail)))
        ELSE Frame(Fetch, StandaloneFetchPayload(0, 1, 0, Ns, Name, 1, 1, 1, 1,
                                                 ListParams(op, tail)))]

\* The ANNOUNCE whose only parameter is an AUTHORIZATION_TOKEN of no bytes, and the
\* one whose token starts with alias type 4.
EmptyTokenCall == AnnounceOf(EmptyToken)
BadTokenCall == AnnounceOf(BadToken)

ListInputs ==
    {ListCalls[msgType, op, tail] :
        msgType \in {Subscribe, Fetch}, op \in ListOps, tail \in ListTails}
    \cup {EmptyTokenCall, BadTokenCall}
    \cup {RegisterCalls[alias, n] : alias \in TokenAliases, n \in TokenLengths}
    \cup {DeleteCalls[alias] : alias \in TokenAliases}

ValidateList ==
    \E data \in ListInputs :
        Return(ValidateMessage(Validator, data, TRUE), "control", data)

ListSpec == TokenInit /\ [][ValidateList]_vars

\* C21: when the first parameter of a SUBSCRIBE or FETCH is a REGISTER that
\* succeeds, or a DELETE, and the parameter after it fails, the message returns
\* an error, the cache holds what the token operation left (the alias registered
\* and the size grown, or the alias removed and the size reduced), and the
\* subscriptions and fetches are as they were.
C21_TokenEffectSurvives ==
    [][\A msgType \in {Subscribe, Fetch}, tail \in {"badToken", "missing"} :
        /\ (/\ lastKind' = "control"
            /\ lastData' = ListCalls[msgType, "register", tail]
            /\ 3 \notin DOMAIN authTokens
            /\ currentAuthTokenSize + TokenOverhead + MaxTokenLen
               <= maxAuthTokenCacheSize)
           => /\ lastErr' # "none"
              /\ authTokens' = With(authTokens, 3, TokenValue(MaxTokenLen))
              /\ currentAuthTokenSize'
                 = currentAuthTokenSize + TokenOverhead + MaxTokenLen
              /\ activeSubscriptions' = activeSubscriptions
              /\ activeFetches' = activeFetches
        /\ (lastKind' = "control" /\ lastData' = ListCalls[msgType, "delete", tail])
           => /\ lastErr' # "none"
              /\ authTokens' = Without(authTokens, 3)
              /\ currentAuthTokenSize'
                 = IF 3 \in DOMAIN authTokens
                   THEN currentAuthTokenSize - (TokenOverhead + Len(authTokens[3]))
                   ELSE currentAuthTokenSize
              /\ activeSubscriptions' = activeSubscriptions
              /\ activeFetches' = activeFetches]_vars

\* The SUBSCRIBE whose REGISTER is followed by the token of alias type 4 has
\* failed on that token: alias 3 is cached and no subscription is stored.
C21_RegisterKeptAfterFailure ==
    /\ lastKind = "control"
    /\ lastData = ListCalls[Subscribe, "register", "badToken"]
    /\ lastErr = "ProtocolViolation"
    /\ lastMsg = "invalid alias type"
    /\ DOMAIN authTokens = {3}
    /\ currentAuthTokenSize = TokenOverhead + MaxTokenLen
    /\ activeSubscriptions = << >>

\* C22: a message with an AUTHORIZATION_TOKEN parameter whose value does not
\* begin with an alias type from 0 to 3 fails: with a protocol violation for
\* alias type 4, and with an error for the value of no bytes.
C22_EveryTokenParsed ==
    [][/\ (lastKind' = "control" /\ lastData' = BadTokenCall)
          => lastErr' = "ProtocolViolation"
       /\ (lastKind' = "control" /\ lastData' = EmptyTokenCall)
          => lastErr' # "none"]_vars

\* Declared lengths against the grammar.  GrammarPayloads[msgType] are payloads
\* that the grammar of msgType consumes to the last byte; a padded message
\* declares and carries more bytes than that, a short message declares and
\* carries one byte less.
GrammarTypes ==
    {ClientSetup, ServerSetup, Subscribe, SubscribeOK, Fetch, Announce, Goaway,
     MaxRequestID, TrackStatusRequest}

GrammarPayloads ==
    [msgType \in GrammarTypes |->
        CASE msgType = ClientSetup ->
                {Counted(<<Vi(1)>>) \o SetupParams(1, 64),
                 Counted(<<Vi(1), Vi(2)>>) \o NoParams}
          [] msgType = ServerSetup ->
                {Vi(1) \o SetupParams(1, 64), Vi(1) \o NoParams}
          [] msgType = Subscribe ->
                {SubscribePayload(0, 10, Ns, Name, 128, 1, 1, Vi(LatestObject), NoParams),
                 SubscribePayload(0, 10, Ns, Name, 128, 1, 1, RangeFilter(1, 0, 2),
                                  NoParams)}
          [] msgType = SubscribeOK ->
                {SubscribeOKPayload(0, 0, 1, 0, NoParams),
                 SubscribeOKPayload(0, 0, 2, 1, Vi(1) \o Vi(0) \o NoParams)}
          [] msgType = Fetch ->
                {StandaloneFetchPayload(0, 1, 0, Ns, Name, 1, 1, 1, 1, NoParams),
                 JoiningFetchPayload(0, 1, 0, 2, 0, 1, NoParams)}
          [] msgType = Announce ->
                {Vi(0) \o TupleBytes(Ns) \o NoParams,
                 Vi(0) \o TupleBytes(Ns) \o Counted(<<DeleteToken(3)>>)}
          [] msgType = Goaway -> {Lp(<< >>), Lp(<<47, 97>>)}
          [] msgType = MaxRequestID -> {Vi(0), Vi(1)}
          [] msgType = TrackStatusRequest ->
                {Vi(0) \o TupleBytes(Ns) \o Lp(Name) \o NoParams}]

Paddings == {<<0>>, <<255>>, <<0, 255>>}

ExactMessages ==
    UNION {{Frame(msgType, payload) : payload \in GrammarPayloads[msgType]}
            : msgType \in GrammarTypes}

PaddedMessages ==
    UNION {{Frame(msgType, payload \o pad)
                : payload \in GrammarPayloads[msgType], pad \in Paddings}
            : msgType \in GrammarTypes}

ShortMessages ==
    UNION {{Frame(msgType, Front(payload)) : payload \in GrammarPayloads[msgType]}
            : msgType \in GrammarTypes}

UnknownTypes == {0, 1, 15, 63}

UnknownMessages ==
    {Frame(msgType, payload) : msgType \in UnknownTypes, payload \in {<< >>, <<0>>}}

LengthInputs ==
    ExactMessages \cup PaddedMessages \cup ShortMessages \cup UnknownMessages

ValidateLength ==
    \E data \in LengthInputs :
        Return(ValidateMessage(Validator, data, TRUE), "control", data)

LengthSpec == Init /\ [][ValidateLength]_vars

\* C23: a control message of a type with a grammar is rejected when its declared
\* length is larger than what the grammar consumes and when it is smaller than
\* what the grammar needs, and a message of an unrecognized type fails with a
\* protocol violation.
C23_LengthBracketsPayload ==
    [][lastKind' = "control"
       => /\ lastData' \in PaddedMessages => lastErr' # "none"
          /\ lastData' \in ShortMessages => lastErr' # "none"
          /\ lastData' \in UnknownMessages => lastErr' = "ProtocolViolation"]_vars

\* C23, the part that the decoders keep: messages one byte short of their
\* grammar are rejected and unrecognized types are protocol violations.
C23_ShortOrUnknownRejected ==
    [][lastKind' = "control"
       => /\ lastData' \in ShortMessages => lastErr' # "none"
          /\ lastData' \in UnknownMessages => lastErr' = "ProtocolViolation"]_vars

\* Full track names at the bounds: namespaces of 0, 1, 2, 32 and 33 fields, with
\* empty fields among them, and names that bring the total of the lengths to
\* 1, to MaxFullTrackNameLength and to one more.
Filled(n, b) == [i \in 1..n |-> b]

BoundNamespaces ==
    {<< >>, << << >> >>, Ns, << << >>, <<108>> >>,
     Filled(MaxNamespaceFields, << >>), Filled(MaxNamespaceFields + 1, << >>),
     Filled(MaxNamespaceFields + 1, <<108>>)}

BoundNames(ns) ==
    {Filled(n, 99) : n \in {1, MaxFullTrackNameLength - SumLen(ns),
                            MaxFullTrackNameLength + 1 - SumLen(ns)}}

InBounds(ns, name) ==
    /\ Len(ns) \in 1..MaxNamespaceFields
    /\ SumLen(ns) + Len(name) <= MaxFullTrackNameLength

NameTypes == {Subscribe, Fetch, TrackStatusRequest}

\* The message of request id 0 of each type for the track (ns, name).
NameCall(msgType, ns, name) ==
    CASE msgType = Subscribe ->
            Frame(Subscribe, SubscribePayload(0, 10, ns, name, 128, 1, 1,
                                              Vi(LatestObject), NoParams))
      [] msgType = Fetch ->
            Frame(Fetch, StandaloneFetchPayload(0, 1, 0, ns, name, 1, 1, 1, 1,
                                                NoParams))
      [] msgType = TrackStatusRequest ->
            Frame(TrackStatusRequest,
                  Vi(0) \o TupleBytes(ns) \o Lp(name) \o NoParams)

NameCallsOf(msgType, inside) ==
    UNION {{NameCall(msgType, ns, name)
                : name \in {n \in BoundNames(ns) : InBounds(ns, n) = inside}}
            : ns \in BoundNamespaces}

NameInputs ==
    UNION {NameCallsOf(msgType, TRUE) \cup NameCallsOf(msgType, FALSE)
            : msgType \in NameTypes}

ValidateName ==
    /\ lastKind = "input"
    /\ Return(ValidateMessage(Validator, lastData, TRUE), "control", lastData)

NameSpec == Loaded(NameInputs) /\ [][ValidateName]_vars

\* C24: on a new validator a SUBSCRIBE, a standalone FETCH and a
\* TRACK_STATUS_REQUEST fail when the namespace has 0 or more than 32 fields or
\* when the field lengths and the name length add up to more than 4096, and are
\* accepted when the track is within the bounds, empty fields included.
C24_TrackNameBounds ==
    [][\A msgType \in NameTypes :
        /\ lastData' \in NameCallsOf(msgType, FALSE) => lastErr' # "none"
        /\ lastData' \in NameCallsOf(msgType, TRUE) => lastErr' = "none"]_vars

\* C24 for SUBSCRIBE alone, the one decoder that builds the FullTrackName.
C24_SubscribeNameBounds ==
    [][/\ lastData' \in NameCallsOf(Subscribe, FALSE) => lastErr' # "none"
       /\ lastData' \in NameCallsOf(Subscribe, TRUE) => lastErr' = "none"]_vars

\* Well-framed control messages that break a rule in every state: an inverted
\* range, an unknown filter type or group order, a request id that is odd or
\* above the ceiling, a REGISTER above the budget, a namespace of no fields,
\* group order 0 in SUBSCRIBE_OK, an unknown message type.
InvertedRangeCalls ==
    {SubscribeRangeCalls[range[1], range[2]]
        : range \in {r \in (0..MaxLoc) \X (0..MaxLoc) : r[2] < r[1]}}

InvertedFetchCalls ==
    {FetchRangeCalls[0, endObject] : endObject \in 0..MaxLoc}
    \cup {FetchRangeCalls[1, 0]}

BadEnumCalls ==
    {Frame(Subscribe, SubscribePayload(0, 10, Ns, Name, 128, 3, 1,
                                       Vi(LatestObject), NoParams)),
     Frame(Subscribe, SubscribePayload(0, 10, Ns, Name, 128, 1, 1, Vi(5), NoParams)),
     Frame(SubscribeOK, SubscribeOKPayload(0, 0, 0, 0, NoParams)),
     Frame(63, << >>)}

BadRequestIDCalls ==
    {SubscribeCalls[rid, alias] : rid \in 1..MaxRid, alias \in Aliases}
    \cup {AnnounceCalls[rid] : rid \in 1..MaxRid}

NoNamespaceCall ==
    Frame(Subscribe, SubscribePayload(0, 10, << >>, Name, 128, 1, 1,
                                      Vi(LatestObject), NoParams))

SemanticFailures ==
    InvertedRangeCalls \cup InvertedFetchCalls \cup BadEnumCalls
    \cup BadRequestIDCalls \cup {RegisterCall, NoNamespaceCall}

\* C25: a well-framed control message that breaks a semantic rule returns an
\* error of kind ProtocolViolation.
C25_SemanticIsProtocolViolation ==
    [][(lastKind' = "control" /\ lastData' \in SemanticFailures)
       => lastErr' = "ProtocolViolation"]_vars

\* C25 without the inverted ranges and the namespace of no fields: the other
\* rules fail with ProtocolViolation.
C25_OtherRulesProtocolViolation ==
    [][(/\ lastKind' = "control"
        /\ lastData' \in BadEnumCalls \cup BadRequestIDCalls \cup {RegisterCall})
       => lastErr' = "ProtocolViolation"]_vars

\* C25, what the inverted ranges and the namespace of no fields return.
C25_RangeAndNameAreValidation ==
    [][(/\ lastKind' = "control"
        /\ lastData' \in InvertedRangeCalls \cup InvertedFetchCalls
                         \cup {NoNamespaceCall})
       => lastErr' = "ValidationError"]_vars

\* The six header types with objects of ascending ids: the first with the
\* payload "abc", the second with status 0, the third with status 3.  On the
\* types that have extension headers every object carries ext: no bytes, the
\* header (2, 7) or the header (1, "a").
ExtChoices == {<< >>, <<2, 7>>, <<1, 1, 97>>}

ExtRecords(ext) ==
    IF ext = <<2, 7>> THEN <<[type |-> 2, value |-> 7]>>
    ELSE <<[type |-> 1, value |-> <<"6", "1">>, length |-> 1]>>

MatrixBody(i) ==
    IF i = 1 THEN Lp(<<97, 98, 99>>) ELSE IF i = 2 THEN StatusBody(0) ELSE StatusBody(3)

MatrixObject(headerType, id, i, ext) ==
    Vi(id) \o (IF headerType \in {9, 11, 13} THEN Lp(ext) ELSE << >>) \o MatrixBody(i)

MatrixStream(headerType, ids, ext) ==
    SubgroupStream(headerType, 1, 100,
                   [i \in 1..Len(ids) |-> MatrixObject(headerType, ids[i], i, ext)])

AscendingIDs == {ids \in Lists(ObjectIDs) : Strict(ids)}

MatrixInputs ==
    {MatrixStream(headerType, ids, ext)
        : headerType \in 8..13, ids \in AscendingIDs, ext \in ExtChoices}

DecodeMatrix ==
    /\ lastKind = "input"
    /\ Return(validateDataStream(Validator, lastData), "stream", lastData)

MatrixSpec == Loaded(MatrixInputs) /\ [][DecodeMatrix]_vars

\* What object i of the record shows of the extension headers.
ExtensionsRead(obj, headerType, ext) ==
    IF headerType \in {9, 11, 13}
    THEN /\ "extension_headers_length" \in DOMAIN obj
         /\ obj.extension_headers_length = Len(ext)
         /\ IF ext = << >> THEN "extension_headers" \notin DOMAIN obj
            ELSE /\ "extension_headers" \in DOMAIN obj
                 /\ obj.extension_headers = ExtRecords(ext)
    ELSE /\ "extension_headers_length" \notin DOMAIN obj
         /\ "extension_headers" \notin DOMAIN obj

\* C26: the record of a decoded subgroup stream gives the subgroup id as 0 for
\* the types 0x08 and 0x09, as the id of the first object for 0x0A and 0x0B, and
\* as the header field for 0x0C and 0x0D; the objects are those sent, with
\* their extension headers read on the types 0x09, 0x0B, 0x0D and on no other.
C26_SubgroupIDByType ==
    \A headerType \in 8..13, ids \in AscendingIDs, ext \in ExtChoices :
        (lastKind = "stream" /\ lastData = MatrixStream(headerType, ids, ext))
        => /\ lastErr = "none"
           /\ lastResult.object_count = Len(ids)
           /\ \A i \in 1..Len(ids) :
                /\ lastResult.objects[i].object_id = ids[i]
                /\ ExtensionsRead(lastResult.objects[i], headerType, ext)
           /\ headerType \in {8, 9}
              => /\ lastResult.subgroup_id_value = "0"
                 /\ "subgroup_id" \in DOMAIN lastResult => lastResult.subgroup_id = 0
           /\ (headerType \in {10, 11} /\ ids # << >>)
              => /\ "subgroup_id" \in DOMAIN lastResult
                 /\ lastResult.subgroup_id = ids[1]
           /\ headerType \in {12, 13}
              => /\ "subgroup_id" \in DOMAIN lastResult
                 /\ lastResult.subgroup_id = 9

\* The stream of type 0x0A with the objects 5, 6, 7 has been decoded: subgroup
\* id 5, three objects, statuses NORMAL, NORMAL, END_OF_GROUP.
C26_FirstObjectNamesSubgroup ==
    /\ lastKind = "stream"
    /\ lastData = MatrixStream(10, <<5, 6, 7>>, << >>)
    /\ lastErr = "none"
    /\ lastResult.subgroup_id = 5
    /\ lastResult.object_count = 3
    /\ [i \in 1..3 |-> lastResult.objects[i].status]
       = <<"NORMAL", "NORMAL", "END_OF_GROUP">>

\* Datagrams of the types 0..4 and 64 for track alias 1, group 2, object 3: on
\* the types 1 and 3 an extension block (no bytes, two well-formed blocks, two
\* that do not parse), then the rest: nothing, one status varint, or "ab".
GoodExts == {<<2, 7>>, <<1, 1, 97>>}
BadExts == {<<2>>, <<1, 5, 97>>}
DatagramExts == {<< >>} \cup GoodExts \cup BadExts

StatusValues == 0..5
DatagramRests == {<< >>, <<97, 98>>} \cup {Vi(st) : st \in StatusValues}

DatagramTypes == {0, 1, 2, 3, 4, 64}

DatagramOf(datagramType, ext, rest) ==
    DatagramBytes(datagramType, 1, 2, 3,
                  (IF datagramType \in {ObjectDatagramWithExt, ObjectStatusWithExt}
                   THEN Lp(ext) ELSE << >>) \o rest)

\* The datagrams with a well-formed extension block and no rest, one byte short.
ShortExtDatagrams ==
    {Front(DatagramOf(datagramType, ext, << >>))
        : datagramType \in {ObjectDatagramWithExt, ObjectStatusWithExt},
          ext \in GoodExts}

AcceptanceInputs ==
    {DatagramOf(datagramType, ext, rest)
        : datagramType \in DatagramTypes, ext \in DatagramExts,
          rest \in DatagramRests}
    \cup ShortExtDatagrams

DecodeDatagram ==
    /\ lastKind = "input"
    /\ Return(ValidateDatagram(Validator, lastData), "datagram", lastData)

DatagramSpec == Loaded(AcceptanceInputs) /\ [][DecodeDatagram]_vars

\* What the datagram grammar admits.
Acceptable(datagramType, ext, rest) ==
    /\ datagramType \in {0, 1, 2, 3}
    /\ datagramType \in {1, 3} => ext \in GoodExts
    /\ datagramType \in {2, 3}
       => rest \in {Vi(st) : st \in {ObjectStatusNormal, ObjectStatusDoesNotExist,
                                     ObjectStatusEndOfGroup, ObjectStatusEndOfTrack}}

\* C27: ValidateDatagram succeeds exactly on the datagrams of a type from 0 to 3
\* whose extension block, on the types 1 and 3, is not empty, is all there and
\* parses, and whose rest is a status 0, 1, 3 or 4 on the types 2 and 3 and
\* anything, nothing included, on the types 0 and 1, where it is the payload;
\* an extension length of 0 on the types 1 and 3 is a protocol violation.
C27_DatagramAcceptance ==
    /\ \A datagramType \in DatagramTypes, ext \in DatagramExts, rest \in DatagramRests :
        (lastKind = "datagram" /\ lastData = DatagramOf(datagramType, ext, rest))
        => /\ lastErr = "none" <=> Acceptable(datagramType, ext, rest)
           /\ datagramType \notin {0, 1, 2, 3} => lastErr = "ProtocolViolation"
           /\ (datagramType \in {1, 3} /\ ext = << >>)
              => lastErr = "ProtocolViolation"
           /\ (datagramType \in {0, 1} /\ lastErr = "none")
              => /\ lastResult.payload_length = Len(rest)
                 /\ lastResult.payload = renderPayload(rest)
    /\ (lastKind = "datagram" /\ lastData \in ShortExtDatagrams) => lastErr # "none"

\* The datagram of type 1 with the extension header (2, 7) and no payload has
\* been accepted with a payload of no bytes.
C27_EmptyPayloadAccepted ==
    /\ lastKind = "datagram"
    /\ lastData = DatagramOf(ObjectDatagramWithExt, <<2, 7>>, << >>)
    /\ lastErr = "none"
    /\ lastResult.payload_length = 0
    /\ lastResult.extension_headers = <<[type |-> 2, value |-> 7]>>

\* C28: in every state the calls reach from NewMoQTValidator the two request-id
\* ceilings, the budget of the token cache, the negotiated version and the map
\* of track aliases have the values of the construction.
C28_SessionLimitsConstant ==
    /\ maxRequestIDClient = NewMoQTValidator.maxRequestIDClient
    /\ maxRequestIDServer = NewMoQTValidator.maxRequestIDServer
    /\ maxAuthTokenCacheSize = NewMoQTValidator.maxAuthTokenCacheSize
    /\ currentVersion = NewMoQTValidator.currentVersion
    /\ activeTracks = NewMoQTValidator.activeTracks

\* A MAX_REQUEST_ID message carrying MaxRid has been accepted after a
\* subscription was stored, and the client's ceiling is the one of the
\* construction.
C28_CeilingAfterMaxRequestID ==
    /\ lastKind = "control"
    /\ lastData = MaxRequestIDCalls[MaxRid]
    /\ lastErr = "none"
    /\ lastResult.max_request_id = MaxRid
    /\ activeSubscriptions # << >>
    /\ maxRequestIDClient = NewMoQTValidator.maxRequestIDClient

\* What a call leaves for the caller: the error and the record.
Outcome(out) == <<out.err, out.msg, out.result>>

\* What each data stream and each datagram of the model returns on a new
\* validator.
StreamOutcomes ==
    [data \in StreamInputs |-> Outcome(ValidateMessage(NewMoQTValidator, data, FALSE))]

DatagramOutcomes ==
    [data \in DatagramInputs |-> Outcome(ValidateDatagram(NewMoQTValidator, data))]

\* C29: a call that decodes a data stream or a datagram leaves every field of
\* the session as it was, and returns what the same buffer returns on a new
\* validator, whatever control messages the session has seen.
C29_DataPlaneStateless ==
    [][/\ lastKind' = "stream"
          => /\ session' = session
             /\ <<lastErr', lastMsg', lastResult'>>
                = StreamOutcomes[lastData']
       /\ lastKind' = "datagram"
          => /\ session' = session
             /\ <<lastErr', lastMsg', lastResult'>>
                = DatagramOutcomes[lastData']]_vars

\* A fetch stream of two objects has been decoded on a session that holds a
\* subscription and a fetch.
C29_StreamAfterControl ==
    /\ lastKind = "stream"
    /\ lastErr = "none"
    /\ lastResult.header_type = "FETCH_HEADER"
    /\ lastResult.object_count = 2
    /\ activeSubscriptions # << >>
    /\ activeFetches # << >>

\* Declared counts and lengths far above the buffer: 3 and 64 with nothing
\* after them, 16383 (the largest of two bytes), 2^48 and 2^62 - 1 (eight
\* bytes), as the number of tuple fields, of parameters and of versions, and as
\* the length of a track name, a tuple field, an extension block and a payload.
WideCounts ==
    {<<3>>, <<64, 64>>, <<127, 255>>,
     <<192, 1, 0, 0, 0, 0, 0, 0>>, <<255, 255, 255, 255, 255, 255, 255, 255>>}

\* The messages, streams and datagrams that end in the count or length c.
CountedControl(c) ==
    {Frame(Announce, Vi(0) \o c),
     Frame(Subscribe, Vi(0) \o Vi(10) \o c),
     Frame(Fetch, Vi(0) \o <<1, 0>> \o Vi(1) \o c),
     Frame(TrackStatusRequest, Vi(0) \o c),
     Frame(Announce, Vi(0) \o TupleBytes(Ns) \o c),
     Frame(Subscribe, Front(SubscribePayload(0, 10, Ns, Name, 128, 1, 1,
                                             Vi(LatestObject), NoParams)) \o c),
     Frame(SubscribeOK, Front(SubscribeOKPayload(0, 0, 1, 0, NoParams)) \o c),
     Frame(TrackStatusRequest, Vi(0) \o TupleBytes(Ns) \o Lp(Name) \o c),
     Frame(ClientSetup, c),
     Frame(ClientSetup, Counted(<<Vi(1)>>) \o c),
     Frame(ServerSetup, Vi(1) \o c),
     Frame(Subscribe, Vi(0) \o Vi(10) \o TupleBytes(Ns) \o c),
     Frame(Announce, Vi(0) \o Vi(1) \o c)}

CountedStreams(c) ==
    {SubgroupStream(8, 1, 100, <<Vi(5) \o c>>),
     SubgroupStream(9, 1, 100, <<Vi(5) \o c>>),
     SubgroupStream(8, 1, 100, <<PayloadObject(5, <<97>>), Vi(6) \o c>>),
     Vi(FetchHeader) \o Vi(0) \o Vi(1) \o Vi(0) \o Vi(0) \o <<0>> \o c,
     Vi(FetchHeader) \o Vi(0) \o Vi(1) \o Vi(0) \o Vi(0) \o <<0>> \o Vi(0) \o c}

CountedDatagrams(c) ==
    {DatagramBytes(ObjectDatagramWithExt, 1, 2, 3, c),
     DatagramBytes(ObjectStatusWithExt, 1, 2, 3, c),
     DatagramBytes(ObjectDatagramWithExt, 1, 2, 3, Vi(9) \o <<1>> \o c)}

CountedControlBuffers == UNION {CountedControl(c) : c \in WideCounts}
CountedStreamBuffers == UNION {CountedStreams(c) : c \in WideCounts}
CountedDatagramBuffers == UNION {CountedDatagrams(c) : c \in WideCounts}

\* The three entry points, each on the buffers of its kind.
DecodeCountedControl ==
    /\ lastKind = "input"
    /\ lastData \in CountedControlBuffers
    /\ Return(ValidateMessage(Validator, lastData, TRUE), "control", lastData)

DecodeCountedStream ==
    /\ lastKind = "input"
    /\ lastData \in CountedStreamBuffers
    /\ Return(ValidateMessage(Validator, lastData, FALSE), "stream", lastData)

DecodeCountedDatagram ==
    /\ lastKind = "input"
    /\ lastData \in CountedDatagramBuffers
    /\ Return(ValidateDatagram(Validator, lastData), "datagram", lastData)

CountSpec ==
    /\ Loaded(CountedControlBuffers \cup CountedStreamBuffers
              \cup CountedDatagramBuffers)
    /\ [][DecodeCountedControl \/ DecodeCountedStream \/ DecodeCountedDatagram]_vars

\* The errors a decoder returns.
ReturnedErrors == {"ValidationError", "ProtocolViolation", "EOF", "UnexpectedEOF"}

\* C30: every call of an entry point returns a record or an error, whatever
\* count or length the buffer declares.
C30_EveryDecodeReturns ==
    lastKind \in {"control", "stream", "datagram"}
    => lastErr \in {"none"} \cup ReturnedErrors

\* C30 for the counts and lengths below 2^48: the loop ends at the end of the
\* buffer and the call returns an error, or what was decoded before it.
C30_ShortBufferEndsLoop ==
    \A c \in {<<3>>, <<64, 64>>, <<127, 255>>} :
        (/\ lastKind \in {"control", "stream", "datagram"}
         /\ lastData \in CountedControl(c) \cup CountedStreams(c) \cup CountedDatagrams(c))
        => lastErr \in {"none"} \cup ReturnedErrors

====
